---- MODULE Spec2Model ----
(***************************************************************************)
(* Model of playbook-forge's text-to-graph conversion engine:              *)
(*   api/parsers/markdown_parser.py  (MarkdownParser, the outline          *)
(*                                    converter)                           *)
(*   api/parsers/mermaid_parser.py   (MermaidParser, the diagram converter)*)
(*   api/models.py                   (PlaybookNode / PlaybookEdge / Graph) *)
(*                                                                         *)
(* A Python str is a sequence of one-character strings, so that strip,     *)
(* startswith, split and the regular expressions are computed character by *)
(* character as the code computes them.  Python's None is the value None.  *)
(* One parser instance is alive at a time; a parse call is a sequence of   *)
(* steps, one per iteration of the scanning loops.                         *)
(***************************************************************************)
EXTENDS Integers, Sequences, FiniteSets, TLC

VARIABLES
    cls,        \* class of the live parser instance: "markdown" | "mermaid"
    self,       \* the instance's fields
    content,    \* argument of the running (or last) parse call
    lines,      \* local of parse(): content.split('\n')
    i,          \* local of parse(): index of the next line (0-based)
    pc,         \* "idle" | "skip" | "scan" | "done" | "raised"
    result,     \* the PlaybookGraph returned by the last parse call, or None
    residue,    \* node_counter the instance held when the running call began
    request,    \* the ParseRequest the endpoint is handling
    response    \* the endpoint's answer to it

vars == <<cls, self, content, lines, i, pc, result, residue, request, response>>

None == <<"None">>

(***************************************************************************)
(* Python str operations                                                   *)
(***************************************************************************)
IsSpace(c) == c \in {" ", "\t", "\n", "\r", "\f"}

RECURSIVE lstrip(_)
lstrip(s) == IF s # <<>> /\ IsSpace(Head(s)) THEN lstrip(Tail(s)) ELSE s

RECURSIVE rstrip(_)
rstrip(s) ==
    IF s # <<>> /\ IsSpace(s[Len(s)]) THEN rstrip(SubSeq(s, 1, Len(s) - 1)) ELSE s

strip(s) == rstrip(lstrip(s))

\* s.lstrip(ch) for a single character ch
RECURSIVE lstrip_char(_, _)
lstrip_char(s, ch) ==
    IF s # <<>> /\ Head(s) = ch THEN lstrip_char(Tail(s), ch) ELSE s

startswith(s, p) == Len(s) >= Len(p) /\ SubSeq(s, 1, Len(p)) = p

endswith(s, p) == Len(s) >= Len(p) /\ SubSeq(s, Len(s) - Len(p) + 1, Len(s)) = p

\* s[k:] with a 0-based k
slice_from(s, k) == SubSeq(s, k + 1, Len(s))

\* `sub in s`
contains(s, sub) ==
    \E k \in 0..(Len(s) - Len(sub)) : SubSeq(s, k + 1, k + Len(sub)) = sub

UpperCase == <<"A", "B", "C", "D", "E", "F", "G", "H", "I", "J", "K", "L", "M",
               "N", "O", "P", "Q", "R", "S", "T", "U", "V", "W", "X", "Y", "Z">>
LowerCase == <<"a", "b", "c", "d", "e", "f", "g", "h", "i", "j", "k", "l", "m",
               "n", "o", "p", "q", "r", "s", "t", "u", "v", "w", "x", "y", "z">>
Digits == <<"0", "1", "2", "3", "4", "5", "6", "7", "8", "9">>

IndexIn(c, alphabet) ==
    IF \E k \in 1..Len(alphabet) : alphabet[k] = c
    THEN CHOOSE k \in 1..Len(alphabet) : alphabet[k] = c
    ELSE 0

lower_char(c) == IF IndexIn(c, UpperCase) > 0 THEN LowerCase[IndexIn(c, UpperCase)] ELSE c
upper_char(c) == IF IndexIn(c, LowerCase) > 0 THEN UpperCase[IndexIn(c, LowerCase)] ELSE c

lower(s) == [k \in 1..Len(s) |-> lower_char(s[k])]

IsDigit(c) == IndexIn(c, Digits) > 0
IsWordChar(c) ==       \* [A-Za-z0-9_]
    IndexIn(c, UpperCase) > 0 \/ IndexIn(c, LowerCase) > 0 \/ IsDigit(c) \/ c = "_"

\* str(n) / f"{n}" for an int n >= 0
RECURSIVE str(_)
str(n) == IF n < 10 THEN <<Digits[n + 1]>> ELSE str(n \div 10) \o <<Digits[(n % 10) + 1]>>

\* 0-based index of the first occurrence of character ch in s at or after the
\* 0-based index from, or -1
find_char(s, ch, from) ==
    LET hits == {k \in from..(Len(s) - 1) : s[k + 1] = ch}
    IN  IF hits = {} THEN -1
        ELSE CHOOSE k \in hits : \A j \in hits : k <= j

\* s.split(sep) for a single character sep: the text is cut at the separator
\* nearest to its middle (k, 0-based) and both parts are split in turn
RECURSIVE split(_, _)
split(s, sep) ==
    LET mid    == Len(s) \div 2
        after  == find_char(s, sep, mid)
        before == {b \in 0..(mid - 1) : s[b + 1] = sep}
        k      == IF after >= 0 THEN after
                  ELSE IF before = {} THEN -1
                  ELSE CHOOSE b \in before : \A j \in before : j <= b
    IN  IF k < 0 THEN <<s>>
        ELSE split(SubSeq(s, 1, k), sep) \o split(slice_from(s, k + 1), sep)

\* sep.join(parts)
RECURSIVE join(_, _)
join(parts, sep) ==
    IF parts = <<>> THEN <<>>
    ELSE IF Len(parts) = 1 THEN parts[1]
    ELSE parts[1] \o sep \o join(Tail(parts), sep)

\* Python truthiness of an Optional[str]
Truthy(x) == x # None /\ x # <<>>

\* `a or b` on Optional[str]
Or(a, b) == IF Truthy(a) THEN a ELSE b

(***************************************************************************)
(* String literals of the source                                           *)
(***************************************************************************)
s_phase == <<"p", "h", "a", "s", "e">>
s_step == <<"s", "t", "e", "p">>
s_decision == <<"d", "e", "c", "i", "s", "i", "o", "n">>
s_merge == <<"m", "e", "r", "g", "e">>
s_execute == <<"e", "x", "e", "c", "u", "t", "e">>
s_sequential == <<"s", "e", "q", "u", "e", "n", "t", "i", "a", "l">>
s_bullet == <<"b", "u", "l", "l", "e", "t">>
s_yes == <<"y", "e", "s">>
s_no == <<"n", "o">>
s_Continue == <<"C", "o", "n", "t", "i", "n", "u", "e">>
s_Execute_ == <<"E", "x", "e", "c", "u", "t", "e", " ">>
s_Execute_code == <<"E", "x", "e", "c", "u", "t", "e", " ", "c", "o", "d", "e">>
s_node_ == <<"n", "o", "d", "e", "_">>
s_edge_ == <<"e", "d", "g", "e", "_">>
s_h == <<"h">>
s_else == <<"e", "l", "s", "e">>
s_otherwise == <<"o", "t", "h", "e", "r", "w", "i", "s", "e">>
\* a TLA+ string cannot hold the backquote character: it is the atom Backquote
Backquote == "BACKQUOTE"
s_fence == <<Backquote, Backquote, Backquote>>

(***************************************************************************)
(* api/models.py                                                           *)
(***************************************************************************)
PlaybookNode(id, label, type, metadata) ==
    [id |-> id, label |-> label, type |-> type, metadata |-> metadata]

\* pydantic validation of the required str fields of PlaybookNode: a None
\* id or label makes the constructor raise ValidationError
PlaybookNode_valid(node) == node.id # None /\ node.label # None

PlaybookEdge(id, source, target, label) ==
    [id |-> id, source |-> source, target |-> target, label |-> label]

PlaybookGraph(nodes, edges) == [nodes |-> nodes, edges |-> edges]

(***************************************************************************)
(* MarkdownParser                                                          *)
(***************************************************************************)
Markdown_init ==
    [nodes |-> <<>>, edges |-> <<>>, node_counter |-> 0, edge_counter |-> 0,
     last_node_id |-> None, phase_stack |-> <<>>]

\* the "Reset state for fresh parse" block of parse()
Markdown_reset(s) ==
    [s EXCEPT !.nodes = <<>>, !.edges = <<>>, !.node_counter = 0,
              !.edge_counter = 0, !.last_node_id = None, !.phase_stack = <<>>]

\* returns the id and the instance with the counter advanced
Markdown_create_node_id(s) ==
    [node_id |-> s_node_ \o str(s.node_counter),
     self    |-> [s EXCEPT !.node_counter = @ + 1]]

\* faulty variant: the edge counter is not advanced
Markdown_create_edge_stuck(s, source, target, label) ==
    LET edge_id == s_edge_ \o str(s.edge_counter)
    IN  [s EXCEPT !.edges = Append(@, PlaybookEdge(edge_id, source, target, label))]

Markdown_create_edge(s, source, target, label) ==
    LET edge_id == s_edge_ \o str(s.edge_counter)
    IN  [s EXCEPT !.edge_counter = @ + 1,
                  !.edges = Append(@, PlaybookEdge(edge_id, source, target, label))]

\* "Connect to previous node if exists", then last_node_id = node_id
\* faulty variant: the cursor stays on the first node
Markdown_connect_from_first(s, node_id) ==
    IF Truthy(s.last_node_id)
    THEN Markdown_create_edge(s, s.last_node_id, node_id, None)
    ELSE [s EXCEPT !.last_node_id = node_id]

\* faulty variant: the cursor moves on without an edge
Markdown_connect_unlinked(s, node_id) ==
    [s EXCEPT !.last_node_id = node_id]

Markdown_connect(s, node_id) ==
    LET s1 == IF Truthy(s.last_node_id)
              THEN Markdown_create_edge(s, s.last_node_id, node_id, None)
              ELSE s
    IN  [s1 EXCEPT !.last_node_id = node_id]

RECURSIVE header_level(_)
header_level(line) ==
    IF line # <<>> /\ Head(line) = "#" THEN 1 + header_level(Tail(line)) ELSE 0

Markdown_parse_header(s, line) ==
    LET level == header_level(line)
        label == strip(lstrip_char(line, "#"))
        c     == Markdown_create_node_id(s)
        node  == PlaybookNode(c.node_id, label, s_phase,
                     [level |-> level, header_type |-> s_h \o str(level)])
        s1    == [c.self EXCEPT !.nodes = Append(@, node)]
        s2    == Markdown_connect(s1, c.node_id)
    IN  [s2 EXCEPT !.phase_stack =
            IF level = 1 THEN <<c.node_id>>
            ELSE IF level = 2 /\ @ # <<>> THEN <<@[1], c.node_id>>
            ELSE @]

\* number of leading digits
RECURSIVE digits_prefix(_)
digits_prefix(s) ==
    IF s # <<>> /\ IsDigit(Head(s)) THEN 1 + digits_prefix(Tail(s)) ELSE 0

\* re.match(r'^\d+\.', s)
is_numbered(s) ==
    LET n == digits_prefix(s) IN n >= 1 /\ Len(s) > n /\ s[n + 1] = "."

\* re.match(r'^\d+\.\s*(.+)$', s): group 1, or None when there is no match.
\* \s* is greedy but gives characters back so that (.+) gets at least one.
numbered_text(s) ==
    IF ~is_numbered(s) THEN None
    ELSE LET rest == slice_from(s, digits_prefix(s) + 1)
         IN  IF rest = <<>> THEN None
             ELSE IF lstrip(rest) # <<>> THEN lstrip(rest)
             ELSE <<rest[Len(rest)]>>

\* faulty variant: no `if not match: return`
Markdown_parse_numbered_list_item_unguarded(s, line) ==
    LET text == numbered_text(line)
        c    == Markdown_create_node_id(s)
        node == PlaybookNode(c.node_id, strip(text), s_step, [step_type |-> s_sequential])
    IN  Markdown_connect([c.self EXCEPT !.nodes = Append(@, node)], c.node_id)

Markdown_parse_numbered_list_item(s, line) ==
    LET text == numbered_text(line)
    IN  IF text = None THEN s
        ELSE LET c    == Markdown_create_node_id(s)
                 node == PlaybookNode(c.node_id, strip(text), s_step,
                             [step_type |-> s_sequential])
             IN  Markdown_connect([c.self EXCEPT !.nodes = Append(@, node)], c.node_id)

decision_keywords ==
    << <<"i", "f", " ">>, <<"w", "h", "e", "n", " ">>, s_else, s_otherwise,
       <<"o", "r", " ", "i", "f">>, <<"e", "l", "i", "f">> >>

is_decision(text) ==
    \E k \in 1..Len(decision_keywords) : contains(lower(text), decision_keywords[k])

condition_prefixes ==
    << <<"i", "f", " ">>, <<"w", "h", "e", "n", " ">>, <<"e", "l", "s", "e", " ">>,
       <<"o", "t", "h", "e", "r", "w", "i", "s", "e", " ">>,
       <<"o", "r", " ", "i", "f", " ">>, <<"e", "l", "i", "f", " ">> >>

Markdown_extract_condition(text) ==
    LET hits == {k \in 1..Len(condition_prefixes) :
                    startswith(lower(text), condition_prefixes[k])}
        c1 == IF hits = {} THEN text
              ELSE LET k == CHOOSE k \in hits : \A m \in hits : k <= m
                   IN  strip(slice_from(text, Len(condition_prefixes[k])))
        c2 == IF c1 # <<>> THEN <<upper_char(c1[1])>> \o Tail(c1) ELSE c1
    IN  IF c2 # <<>> /\ ~endswith(c2, <<"?">>) THEN c2 \o <<"?">> ELSE c2

\* faulty variant: only the bullets indented by two spaces are branches
is_indented_bullet_two(line) ==
    \/ startswith(line, <<" ", " ", "-">>)
    \/ startswith(line, <<" ", " ", "*">>)

\* next_line.startswith('  -') or ('  *') or ('    -') or ('    *')
is_indented_bullet(line) ==
    \/ startswith(line, <<" ", " ", "-">>)
    \/ startswith(line, <<" ", " ", "*">>)
    \/ startswith(line, <<" ", " ", " ", " ", "-">>)
    \/ startswith(line, <<" ", " ", " ", " ", "*">>)

\* faulty variant: the first branch is labelled yes whatever the decision says
RECURSIVE collect_branches_first_yes(_, _, _, _)
collect_branches_first_yes(ls, idx, text, branches) ==
    IF idx < Len(ls) /\ is_indented_bullet(ls[idx + 1])
    THEN LET branch_content == strip(slice_from(strip(ls[idx + 1]), 1))
             branch_label == IF branches # <<>> THEN s_no ELSE s_yes
         IN  collect_branches_first_yes(ls, idx + 1, text,
                                        Append(branches, <<branch_label, branch_content>>))
    ELSE branches

\* the look-ahead loop of _parse_decision_node: the (label, content) pairs of
\* the indented bullets from 0-based index idx on
RECURSIVE collect_branches(_, _, _, _)
collect_branches(ls, idx, text, branches) ==
    IF idx < Len(ls) /\ is_indented_bullet(ls[idx + 1])
    THEN LET branch_content == strip(slice_from(strip(ls[idx + 1]), 1))
             branch_label ==
                 IF contains(lower(text), s_else) \/ contains(lower(text), s_otherwise)
                 THEN s_no
                 ELSE IF branches # <<>> THEN s_no
                 ELSE s_yes
         IN  collect_branches(ls, idx + 1, text,
                              Append(branches, <<branch_label, branch_content>>))
    ELSE branches

\* faulty variant: a merge point only from the third branch on
needs_merge_late(merge_node_id, branches) ==
    ~Truthy(merge_node_id) /\ Len(branches) > 2

\* faulty variant: a merge point for a single branch too
needs_merge_always(merge_node_id, branches) ==
    ~Truthy(merge_node_id) /\ Len(branches) > 0

\* `if not merge_node_id and len(branches) > 1`
needs_merge(merge_node_id, branches) ==
    ~Truthy(merge_node_id) /\ Len(branches) > 1

\* faulty variant: the merge edge runs from the merge point to the branch
RECURSIVE create_branches_reversed(_, _, _, _, _)
create_branches_reversed(s, merge_node_id, decision_id, branches, k) ==
    IF k > Len(branches) THEN [self |-> s, merge_node_id |-> merge_node_id]
    ELSE
      LET c   == Markdown_create_node_id(s)
          br  == PlaybookNode(c.node_id, branches[k][2], s_step,
                              [branch |-> branches[k][1]])
          s1  == [c.self EXCEPT !.nodes = Append(@, br)]
          s2  == Markdown_create_edge(s1, decision_id, c.node_id, branches[k][1])
          mk  == needs_merge(merge_node_id, branches)
          cm  == Markdown_create_node_id(s2)
          s3  == IF mk
                 THEN [cm.self EXCEPT !.nodes = Append(@,
                          PlaybookNode(cm.node_id, s_Continue, s_merge,
                                       [merge_type |-> s_decision]))]
                 ELSE s2
          m3  == IF mk THEN cm.node_id ELSE merge_node_id
          s4  == IF Truthy(m3) THEN Markdown_create_edge(s3, m3, c.node_id, None) ELSE s3
      IN  create_branches_reversed(s4, m3, decision_id, branches, k + 1)

\* the "Create branch nodes" loop: [self, merge_node_id]
RECURSIVE create_branches(_, _, _, _, _)
create_branches(s, merge_node_id, decision_id, branches, k) ==
    IF k > Len(branches) THEN [self |-> s, merge_node_id |-> merge_node_id]
    ELSE
      LET c   == Markdown_create_node_id(s)
          br  == PlaybookNode(c.node_id, branches[k][2], s_step,
                              [branch |-> branches[k][1]])
          s1  == [c.self EXCEPT !.nodes = Append(@, br)]
          s2  == Markdown_create_edge(s1, decision_id, c.node_id, branches[k][1])
          mk  == needs_merge(merge_node_id, branches)
          cm  == Markdown_create_node_id(s2)
          s3  == IF mk
                 THEN [cm.self EXCEPT !.nodes = Append(@,
                          PlaybookNode(cm.node_id, s_Continue, s_merge,
                                       [merge_type |-> s_decision]))]
                 ELSE s2
          m3  == IF mk THEN cm.node_id ELSE merge_node_id
          s4  == IF Truthy(m3) THEN Markdown_create_edge(s3, c.node_id, m3, None) ELSE s3
      IN  create_branches(s4, m3, decision_id, branches, k + 1)

\* faulty variant: the cursor is left on the last node the block created
Markdown_parse_decision_node_last_created(s, ls, start_idx, text) ==
    LET c        == Markdown_create_node_id(s)
        node     == PlaybookNode(c.node_id, Markdown_extract_condition(text),
                                 s_decision, [condition |-> text])
        s1       == [c.self EXCEPT !.nodes = Append(@, node)]
        s2       == IF Truthy(s.last_node_id)
                    THEN Markdown_create_edge(s1, s.last_node_id, c.node_id, None)
                    ELSE s1
        branches == collect_branches(ls, start_idx + 1, text, <<>>)
        r        == create_branches(s2, None, c.node_id, branches, 1)
    IN  [self |-> [r.self EXCEPT !.last_node_id =
                      r.self.nodes[Len(r.self.nodes)].id],
         idx  |-> start_idx + 1 + Len(branches)]

\* returns [self, idx]: the instance and the next line index to process
Markdown_parse_decision_node(s, ls, start_idx, text) ==
    LET c        == Markdown_create_node_id(s)
        node     == PlaybookNode(c.node_id, Markdown_extract_condition(text),
                                 s_decision, [condition |-> text])
        s1       == [c.self EXCEPT !.nodes = Append(@, node)]
        s2       == IF Truthy(s.last_node_id)
                    THEN Markdown_create_edge(s1, s.last_node_id, c.node_id, None)
                    ELSE s1
        branches == collect_branches(ls, start_idx + 1, text, <<>>)
        r        == create_branches(s2, None, c.node_id, branches, 1)
    IN  [self |-> [r.self EXCEPT !.last_node_id =
                      IF Truthy(r.merge_node_id) THEN r.merge_node_id ELSE c.node_id],
         idx  |-> start_idx + 1 + Len(branches)]

Markdown_parse_bullet_point(s, ls, start_idx) ==
    LET line == strip(ls[start_idx + 1])
        text == strip(slice_from(line, 1))
    IN  IF ~(startswith(line, <<"-">>) \/ startswith(line, <<"*">>))
        THEN [self |-> s, idx |-> start_idx + 1]
        ELSE IF is_decision(text)
        THEN Markdown_parse_decision_node(s, ls, start_idx, text)
        ELSE LET c    == Markdown_create_node_id(s)
                 node == PlaybookNode(c.node_id, text, s_step, [step_type |-> s_bullet])
             IN  [self |-> Markdown_connect([c.self EXCEPT !.nodes = Append(@, node)],
                                            c.node_id),
                  idx  |-> start_idx + 1]

\* 0-based index of the first line at or after idx whose stripped text starts
\* with a fence, or len(lines)
RECURSIVE find_fence(_, _)
find_fence(ls, idx) ==
    IF idx < Len(ls) /\ ~startswith(strip(ls[idx + 1]), s_fence)
    THEN find_fence(ls, idx + 1)
    ELSE idx

\* faulty variant: the scan resumes at the closing fence, not after it
Markdown_parse_code_block_reopens(s, ls, start_idx) ==
    LET opening_line == strip(ls[start_idx + 1])
        language     == IF Len(opening_line) > 3
                        THEN strip(slice_from(opening_line, 3)) ELSE <<>>
        idx          == find_fence(ls, start_idx + 1)
        code_content == join(SubSeq(ls, start_idx + 2, idx), <<"\n">>)
        c            == Markdown_create_node_id(s)
        node         == PlaybookNode(c.node_id,
                            IF language # <<>> THEN s_Execute_ \o language
                            ELSE s_Execute_code,
                            s_execute, [code |-> code_content, language |-> language])
    IN  [self |-> Markdown_connect([c.self EXCEPT !.nodes = Append(@, node)], c.node_id),
         idx  |-> IF idx < Len(ls) /\ idx > start_idx + 1 THEN idx ELSE idx + 1]

Markdown_parse_code_block(s, ls, start_idx) ==
    LET opening_line == strip(ls[start_idx + 1])
        language     == IF Len(opening_line) > 3
                        THEN strip(slice_from(opening_line, 3)) ELSE <<>>
        idx          == find_fence(ls, start_idx + 1)
        code_content == join(SubSeq(ls, start_idx + 2, idx), <<"\n">>)
        c            == Markdown_create_node_id(s)
        node         == PlaybookNode(c.node_id,
                            IF language # <<>> THEN s_Execute_ \o language
                            ELSE s_Execute_code,
                            s_execute, [code |-> code_content, language |-> language])
    IN  [self |-> Markdown_connect([c.self EXCEPT !.nodes = Append(@, node)], c.node_id),
         idx  |-> idx + 1]


\* the if-chain of the scanning loop of parse(), on the stripped line
Markdown_line_kind(stripped) ==
    IF stripped = <<>> THEN "empty"
    ELSE IF startswith(stripped, <<"#">>) THEN "header"
    ELSE IF is_numbered(stripped) THEN "numbered"
    ELSE IF startswith(stripped, <<"-">>) \/ startswith(stripped, <<"*">>) THEN "bullet"
    ELSE IF startswith(stripped, s_fence) THEN "code"
    ELSE "other"

(***************************************************************************)
(* MermaidParser: the regular expressions                                  *)
(***************************************************************************)
s_flowchart == <<"f", "l", "o", "w", "c", "h", "a", "r", "t">>
s_graph == <<"g", "r", "a", "p", "h">>
s_subgraph == <<"s", "u", "b", "g", "r", "a", "p", "h">>
s_end == <<"e", "n", "d">>
s_comment == <<"%", "%">>

NoMatch == [start |-> -1, end |-> -1, group |-> None]

\* 0-based index of the first occurrence of sub in s at or after from, or -1
RECURSIVE find_sub(_, _, _)
find_sub(s, sub, from) ==
    IF from + Len(sub) > Len(s) THEN -1
    ELSE IF SubSeq(s, from + 1, from + Len(sub)) = sub THEN from
    ELSE find_sub(s, sub, from + 1)

\* EDGE_PATTERNS, in list order.  A labelled pattern  open \s*([^x]+?)\s* close
\* is [open, excl (the character x), close]; a simple pattern is its literal.
EDGE_PATTERNS ==
    << [labelled |-> TRUE, open |-> <<"-", "-">>, excl |-> "-",
        close |-> <<"-", "-", ">">>, type |-> "solid"],
       [labelled |-> TRUE, open |-> <<"-", ".">>, excl |-> "-",
        close |-> <<".", "-", ">">>, type |-> "dotted"],
       [labelled |-> TRUE, open |-> <<"=", "=">>, excl |-> "=",
        close |-> <<"=", "=", ">">>, type |-> "bold"],
       [labelled |-> FALSE, literal |-> <<"-", "-", ">">>, type |-> "solid"],
       [labelled |-> FALSE, literal |-> <<"-", ".", "-", ">">>, type |-> "dotted"],
       [labelled |-> FALSE, literal |-> <<"=", "=", ">">>, type |-> "bold"],
       [labelled |-> FALSE, literal |-> <<"-", "-", "-", ">">>, type |-> "solid"],
       [labelled |-> FALSE, literal |-> <<"-", "-", "-", "-", ">">>, type |-> "solid"] >>

\* the text captured by \s*([^x]+?)\s* on a non-empty body without x: the
\* greedy \s* and the lazy group leave the body stripped, or its last
\* character when the body is all whitespace
label_group(body) ==
    IF strip(body) # <<>> THEN strip(body) ELSE <<body[Len(body)]>>

\* a labelled pattern matched at the 0-based index p of s.  The body excludes
\* x and the closing arrow holds x, so the arrow sits at the first x after
\* the opening.
labelled_match_at(s, pat, p) ==
    LET b   == p + 2
        d   == find_char(s, pat.excl, b)
        off == find_char(pat.close, pat.excl, 0)
        e   == d - off
    IN  IF /\ p + 2 <= Len(s)
           /\ SubSeq(s, p + 1, p + 2) = pat.open
           /\ d >= 0
           /\ e >= b + 1
           /\ e + 3 <= Len(s)
           /\ SubSeq(s, e + 1, e + 3) = pat.close
        THEN [start |-> p, end |-> e + 3, group |-> label_group(SubSeq(s, b + 1, e))]
        ELSE NoMatch

\* re.search(pattern, s) from the 0-based index from: the leftmost match
RECURSIVE pattern_search(_, _, _)
pattern_search(s, pat, from) ==
    IF pat.labelled
    THEN IF from >= Len(s) THEN NoMatch
         ELSE LET m == labelled_match_at(s, pat, from)
              IN  IF m.start >= 0 THEN m ELSE pattern_search(s, pat, from + 1)
    ELSE LET k == find_sub(s, pat.literal, from)
         IN  IF k < 0 THEN NoMatch
             ELSE [start |-> k, end |-> k + Len(pat.literal), group |-> None]

\* re.split(pattern, s): the texts between the matches, each match's group
\* (labelled patterns only) in between
RECURSIVE re_split(_, _, _)
re_split(s, pat, pos) ==
    LET m == pattern_search(s, pat, pos)
    IN  IF m.start < 0 THEN <<SubSeq(s, pos + 1, Len(s))>>
        ELSE <<SubSeq(s, pos + 1, m.start)>>
             \o (IF pat.labelled THEN <<m.group>> ELSE <<>>)
             \o re_split(s, pat, m.end)

\* length of the dash run of s from the 0-based index p
RECURSIVE dash_run(_, _)
dash_run(s, p) ==
    IF p < Len(s) /\ s[p + 1] = "-" THEN 1 + dash_run(s, p + 1) ELSE 0

\* (?:-->|-\.->|==>|---+>) matched at the 0-based index p: length, or 0
connector_at(s, p) ==
    IF startswith(slice_from(s, p), <<"-", "-", ">">>) THEN 3
    ELSE IF startswith(slice_from(s, p), <<"-", ".", "-", ">">>) THEN 4
    ELSE IF startswith(slice_from(s, p), <<"=", "=", ">">>) THEN 3
    ELSE IF dash_run(s, p) >= 3 /\ p + dash_run(s, p) < Len(s)
            /\ s[p + dash_run(s, p) + 1] = ">"
    THEN dash_run(s, p) + 1
    ELSE 0

\* re.split(r'(?:-->|-\.->|==>|---+>)', s), scanning from pos; seg is the
\* start of the current piece
RECURSIVE split_connectors(_, _, _)
split_connectors(s, seg, pos) ==
    IF pos >= Len(s) THEN <<SubSeq(s, seg + 1, Len(s))>>
    ELSE IF connector_at(s, pos) > 0
    THEN <<SubSeq(s, seg + 1, pos)>>
         \o split_connectors(s, pos + connector_at(s, pos), pos + connector_at(s, pos))
    ELSE split_connectors(s, seg, pos + 1)

\* NODE_PATTERNS, in the insertion order of the dict: ID \s* open ([^x]+) close
NODE_PATTERNS ==
    << [open |-> <<"[">>, excl |-> "]", close |-> <<"]">>, type |-> s_step],
       [open |-> <<"{">>, excl |-> "}", close |-> <<"}">>, type |-> s_decision],
       [open |-> <<"(", "(">>, excl |-> ")", close |-> <<")", ")">>, type |-> s_phase],
       [open |-> <<"(">>, excl |-> ")", close |-> <<")">>, type |-> s_step],
       [open |-> <<">">>, excl |-> "]", close |-> <<"]">>, type |-> s_step],
       [open |-> <<"[", "[">>, excl |-> "]", close |-> <<"]", "]">>, type |-> s_step] >>

\* length of the leading run of [A-Za-z0-9_]
RECURSIVE word_prefix(_)
word_prefix(s) ==
    IF s # <<>> /\ IsWordChar(Head(s)) THEN 1 + word_prefix(Tail(s)) ELSE 0

NoInfo == [node_id |-> None, label |-> None, node_type |-> None]

\* re.match(r'([A-Za-z0-9_]+)\s*' + pattern, text) for one shape
shape_match(text, shape) ==
    LET n    == word_prefix(text)
        rest == lstrip(slice_from(text, n))
        body == slice_from(rest, Len(shape.open))
        e    == IF find_char(body, shape.excl, 0) < 0 THEN Len(body)
                ELSE find_char(body, shape.excl, 0)
    IN  IF /\ n >= 1
           /\ startswith(rest, shape.open)
           /\ e >= 1
           /\ startswith(slice_from(body, e), shape.close)
        THEN [node_id |-> SubSeq(text, 1, n), label |-> strip(SubSeq(body, 1, e)),
              node_type |-> shape.type]
        ELSE NoInfo

RECURSIVE first_shape(_, _, _)
first_shape(text, shapes, k) ==
    IF k > Len(shapes) THEN NoInfo
    ELSE IF shape_match(text, shapes[k]) # NoInfo THEN shape_match(text, shapes[k])
    ELSE first_shape(text, shapes, k + 1)

Mermaid_extract_node_info(raw) ==
    LET text  == strip(raw)
        shape == first_shape(text, NODE_PATTERNS, 1)
    IN  IF shape # NoInfo THEN shape
        ELSE IF text # <<>> /\ word_prefix(text) = Len(text)
        THEN [node_id |-> text, label |-> None, node_type |-> None]
        ELSE NoInfo

(***************************************************************************)
(* MermaidParser                                                           *)
(***************************************************************************)
EmptyMap == [k \in {} |-> None]

Mermaid_init ==
    [nodes |-> <<>>, edges |-> <<>>, node_counter |-> 0, edge_counter |-> 0,
     node_id_map |-> EmptyMap, subgraph_stack |-> <<>>, current_subgraph |-> None]

\* faulty variant: the id map is not cleared
Mermaid_reset_keeps_map(s) ==
    [s EXCEPT !.nodes = <<>>, !.edges = <<>>, !.node_counter = 0,
              !.edge_counter = 0, !.subgraph_stack = <<>>, !.current_subgraph = None]

\* the "Reset state for fresh parse" block of parse()
Mermaid_reset(s) ==
    [s EXCEPT !.nodes = <<>>, !.edges = <<>>, !.node_counter = 0,
              !.edge_counter = 0, !.node_id_map = EmptyMap,
              !.subgraph_stack = <<>>, !.current_subgraph = None]

Mermaid_create_node_id(s) ==
    [node_id |-> s_node_ \o str(s.node_counter),
     self    |-> [s EXCEPT !.node_counter = @ + 1]]

\* faulty variant: edge ids are drawn from the node counter
Mermaid_create_edge_shared(s, source, target, label) ==
    LET edge_id == s_edge_ \o str(s.node_counter)
    IN  [s EXCEPT !.node_counter = @ + 1,
                  !.edges = Append(@, PlaybookEdge(edge_id, source, target, label))]

Mermaid_create_edge(s, source, target, label) ==
    LET edge_id == s_edge_ \o str(s.edge_counter)
    IN  [s EXCEPT !.edge_counter = @ + 1,
                  !.edges = Append(@, PlaybookEdge(edge_id, source, target, label))]

\* self.node_id_map[key] = value
MapPut(m, key, value) ==
    [k \in DOMAIN m \cup {key} |-> IF k = key THEN value ELSE m[k]]

\* re.match(r'subgraph\s+(.+)', line): group 1, or None
subgraph_label(line) ==
    LET rest == slice_from(line, Len(s_subgraph))
    IN  IF /\ startswith(line, s_subgraph)
           /\ rest # <<>>
           /\ IsSpace(rest[1])
           /\ Len(rest) >= 2
        THEN IF lstrip(rest) # <<>> THEN lstrip(rest) ELSE <<rest[Len(rest)]>>
        ELSE None

Mermaid_parse_subgraph_start(s, line) ==
    LET group == subgraph_label(line)
    IN  IF group = None THEN s
        ELSE LET label == strip(group)
                 c     == Mermaid_create_node_id(s)
                 node  == PlaybookNode(c.node_id, label, s_phase,
                              [is_subgraph |-> TRUE,
                               level |-> Len(s.subgraph_stack) + 1])
             IN  [c.self EXCEPT !.nodes = Append(@, node),
                                !.subgraph_stack = Append(@, <<c.node_id, label>>),
                                !.current_subgraph = c.node_id]

\* faulty variant: closing a group leaves no group as the context
Mermaid_parse_subgraph_end_to_top(s) ==
    IF s.subgraph_stack # <<>>
    THEN [s EXCEPT !.subgraph_stack = SubSeq(@, 1, Len(@) - 1),
                   !.current_subgraph = None]
    ELSE s

Mermaid_parse_subgraph_end(s) ==
    IF s.subgraph_stack # <<>>
    THEN LET popped == SubSeq(s.subgraph_stack, 1, Len(s.subgraph_stack) - 1)
         IN  [s EXCEPT !.subgraph_stack = popped,
                       !.current_subgraph =
                           IF popped # <<>> THEN popped[Len(popped)][1] ELSE None]
    ELSE s

\* faulty variant: the new node is mapped but not appended to self.nodes
Mermaid_get_or_create_unlisted(s, info) ==
    IF info.node_id \in DOMAIN s.node_id_map THEN [self |-> s, raised |-> FALSE]
    ELSE LET c    == Mermaid_create_node_id(s)
             s1   == [c.self EXCEPT !.node_id_map = MapPut(@, info.node_id, c.node_id)]
             node == PlaybookNode(c.node_id, Or(info.label, info.node_id),
                         Or(info.node_type, s_step),
                         [mermaid_id |-> info.node_id, subgraph |-> s.current_subgraph])
         IN  [self |-> s1, raised |-> ~PlaybookNode_valid(node)]

\* faulty variant: a reference with a shape relabels the node it names
Mermaid_get_or_create_relabel(s, info) ==
    IF info.node_id \in DOMAIN s.node_id_map
    THEN [self |-> [s EXCEPT !.nodes =
                       [k \in 1..Len(s.nodes) |->
                           IF /\ "mermaid_id" \in DOMAIN s.nodes[k].metadata
                              /\ s.nodes[k].metadata.mermaid_id = info.node_id
                              /\ info.label # None
                           THEN [s.nodes[k] EXCEPT !.label = info.label,
                                                   !.type = info.node_type]
                           ELSE s.nodes[k]]],
          raised |-> FALSE]
    ELSE LET c    == Mermaid_create_node_id(s)
             s1   == [c.self EXCEPT !.node_id_map = MapPut(@, info.node_id, c.node_id)]
             node == PlaybookNode(c.node_id, Or(info.label, info.node_id),
                         Or(info.node_type, s_step),
                         [mermaid_id |-> info.node_id, subgraph |-> s.current_subgraph])
         IN  IF PlaybookNode_valid(node)
             THEN [self |-> [s1 EXCEPT !.nodes = Append(@, node)], raised |-> FALSE]
             ELSE [self |-> s1, raised |-> TRUE]

\* "Get or create" a node for the extracted info: [self, raised].  The id is
\* drawn and mapped before PlaybookNode validates the label.
Mermaid_get_or_create(s, info) ==
    IF info.node_id \in DOMAIN s.node_id_map THEN [self |-> s, raised |-> FALSE]
    ELSE LET c    == Mermaid_create_node_id(s)
             s1   == [c.self EXCEPT !.node_id_map = MapPut(@, info.node_id, c.node_id)]
             node == PlaybookNode(c.node_id, Or(info.label, info.node_id),
                         Or(info.node_type, s_step),
                         [mermaid_id |-> info.node_id, subgraph |-> s.current_subgraph])
         IN  IF PlaybookNode_valid(node)
             THEN [self |-> [s1 EXCEPT !.nodes = Append(@, node)], raised |-> FALSE]
             ELSE [self |-> s1, raised |-> TRUE]

\* faulty variant: each target is the source of the next edge
RECURSIVE edge_targets_chained(_, _, _, _, _)
edge_targets_chained(s, source_id, edge_label, target_parts, k) ==
    IF k > Len(target_parts) THEN [self |-> s, raised |-> FALSE]
    ELSE IF strip(target_parts[k]) = <<>>
    THEN edge_targets_chained(s, source_id, edge_label, target_parts, k + 1)
    ELSE LET info == Mermaid_extract_node_info(strip(target_parts[k]))
             g    == Mermaid_get_or_create(s, info)
         IN  IF g.raised THEN g
             ELSE edge_targets_chained(
                      Mermaid_create_edge(g.self, g.self.node_id_map[source_id],
                                          g.self.node_id_map[info.node_id], edge_label),
                      info.node_id, edge_label, target_parts, k + 1)

\* the loop over target_parts of _parse_edge_statement: [self, raised]
RECURSIVE edge_targets(_, _, _, _, _)
edge_targets(s, source_id, edge_label, target_parts, k) ==
    IF k > Len(target_parts) THEN [self |-> s, raised |-> FALSE]
    ELSE IF strip(target_parts[k]) = <<>>
    THEN edge_targets(s, source_id, edge_label, target_parts, k + 1)
    ELSE LET info == Mermaid_extract_node_info(strip(target_parts[k]))
             g    == Mermaid_get_or_create(s, info)
         IN  IF g.raised THEN g
             ELSE edge_targets(
                      Mermaid_create_edge(g.self, g.self.node_id_map[source_id],
                                          g.self.node_id_map[info.node_id], edge_label),
                      source_id, edge_label, target_parts, k + 1)

\* faulty variant: the captured label is dropped
Mermaid_parse_edge_statement_unlabelled(s, line, pat) ==
    LET parts == re_split(line, pat, 0)
    IN  IF Len(parts) < 2 THEN [self |-> s, raised |-> FALSE]
        ELSE
          LET source     == Mermaid_extract_node_info(strip(parts[1]))
              g          == Mermaid_get_or_create(s, source)
              has_label  == pat.labelled /\ Len(parts) > 2
              idx        == IF has_label THEN 2 ELSE 1
              remaining  == IF idx < Len(parts) THEN parts[idx + 1] ELSE <<>>
          IN  IF g.raised THEN g
              ELSE edge_targets(g.self, source.node_id, None,
                                split_connectors(remaining, 0, 0), 1)

\* [self, raised]
Mermaid_parse_edge_statement(s, line, pat) ==
    LET parts == re_split(line, pat, 0)
    IN  IF Len(parts) < 2 THEN [self |-> s, raised |-> FALSE]
        ELSE
          LET source     == Mermaid_extract_node_info(strip(parts[1]))
              g          == Mermaid_get_or_create(s, source)
              has_label  == pat.labelled /\ Len(parts) > 2
              edge_label == IF has_label THEN strip(parts[2]) ELSE None
              idx        == IF has_label THEN 2 ELSE 1
              remaining  == IF idx < Len(parts) THEN parts[idx + 1] ELSE <<>>
          IN  IF g.raised THEN g
              ELSE edge_targets(g.self, source.node_id, edge_label,
                                split_connectors(remaining, 0, 0), 1)

\* faulty variant: a definition line does not look the identifier up
Mermaid_parse_node_definition_again(s, line) ==
    LET info == Mermaid_extract_node_info(line)
    IN  IF Truthy(info.node_id)
        THEN LET c    == Mermaid_create_node_id(s)
                 node == PlaybookNode(c.node_id, Or(info.label, info.node_id),
                             Or(info.node_type, s_step),
                             [mermaid_id |-> info.node_id,
                              subgraph |-> s.current_subgraph])
             IN  [c.self EXCEPT !.node_id_map = MapPut(@, info.node_id, c.node_id),
                                !.nodes = Append(@, node)]
        ELSE s

Mermaid_parse_node_definition(s, line) ==
    LET info == Mermaid_extract_node_info(line)
    IN  IF Truthy(info.node_id) /\ info.node_id \notin DOMAIN s.node_id_map
        THEN LET c    == Mermaid_create_node_id(s)
                 node == PlaybookNode(c.node_id, Or(info.label, info.node_id),
                             Or(info.node_type, s_step),
                             [mermaid_id |-> info.node_id,
                              subgraph |-> s.current_subgraph])
             IN  [c.self EXCEPT !.node_id_map = MapPut(@, info.node_id, c.node_id),
                                !.nodes = Append(@, node)]
        ELSE s

\* index in EDGE_PATTERNS of the first pattern re.search finds in line, or 0
RECURSIVE first_edge_pattern(_, _)
first_edge_pattern(line, k) ==
    IF k > Len(EDGE_PATTERNS) THEN 0
    ELSE IF pattern_search(line, EDGE_PATTERNS[k], 0).start >= 0 THEN k
    ELSE first_edge_pattern(line, k + 1)

\* [self, raised]
Mermaid_parse_statement(s, line) ==
    LET k == first_edge_pattern(line, 1)
    IN  IF k > 0 THEN Mermaid_parse_edge_statement(s, line, EDGE_PATTERNS[k])
        ELSE [self |-> Mermaid_parse_node_definition(s, line), raised |-> FALSE]

\* the declaration test of the first loop of parse()
is_declaration(line) == startswith(line, s_flowchart) \/ startswith(line, s_graph)

\* the if-chain of the second loop of parse(), on the stripped line
Mermaid_line_kind(line) ==
    IF line = <<>> \/ startswith(line, s_comment) THEN "skip"
    ELSE IF startswith(line, s_subgraph) THEN "subgraph"
    ELSE IF line = s_end THEN "end"
    ELSE "statement"

(***************************************************************************)
(* parse(): one loop iteration as a function, and the whole call           *)
(***************************************************************************)
\* a node whose label is None cannot be constructed: PlaybookNode(...) raises
Raised(s) == \E k \in 1..Len(s.nodes) : ~PlaybookNode_valid(s.nodes[k])

\* the branches of the scanning loop of MarkdownParser.parse: [self, idx]
\* faulty variant: a skipped line breaks the chain
Markdown_on_skip_breaks_chain(s, ls, idx) ==
    [self |-> [s EXCEPT !.last_node_id = None], idx |-> idx + 1]

Markdown_on_skip(s, ls, idx) == [self |-> s, idx |-> idx + 1]

Markdown_on_header(s, ls, idx) ==
    [self |-> Markdown_parse_header(s, strip(ls[idx + 1])), idx |-> idx + 1]

Markdown_on_numbered(s, ls, idx) ==
    [self |-> Markdown_parse_numbered_list_item(s, strip(ls[idx + 1])), idx |-> idx + 1]

\* one iteration of the scanning loop of MarkdownParser.parse: [self, idx]
Markdown_step(s, ls, idx) ==
    LET kind == Markdown_line_kind(strip(ls[idx + 1]))
    IN  IF kind = "header" THEN Markdown_on_header(s, ls, idx)
        ELSE IF kind = "numbered" THEN Markdown_on_numbered(s, ls, idx)
        ELSE IF kind = "bullet" THEN Markdown_parse_bullet_point(s, ls, idx)
        ELSE IF kind = "code" THEN Markdown_parse_code_block(s, ls, idx)
        ELSE Markdown_on_skip(s, ls, idx)

\* the scanning loop of MarkdownParser.parse from line idx on: the returned
\* graph, or None when the call raises
RECURSIVE Markdown_run(_, _, _)
Markdown_run(s, ls, idx) ==
    IF idx >= Len(ls) THEN PlaybookGraph(s.nodes, s.edges)
    ELSE LET r == Markdown_step(s, ls, idx)
         IN  IF Raised(r.self) THEN None ELSE Markdown_run(r.self, ls, r.idx)

\* MarkdownParser().parse(c)
Markdown_fresh_parse(c) == Markdown_run(Markdown_reset(Markdown_init), split(c, "\n"), 0)

\* the branches of the second loop of MermaidParser.parse: [self, raised]
Mermaid_on_skip(s, ls, idx) == [self |-> s, raised |-> FALSE]

Mermaid_on_subgraph(s, ls, idx) ==
    [self |-> Mermaid_parse_subgraph_start(s, strip(ls[idx + 1])), raised |-> FALSE]

Mermaid_on_end(s, ls, idx) ==
    [self |-> Mermaid_parse_subgraph_end(s), raised |-> FALSE]

Mermaid_on_statement(s, ls, idx) == Mermaid_parse_statement(s, strip(ls[idx + 1]))

\* one iteration of the second loop of MermaidParser.parse: [self, raised]
Mermaid_step(s, ls, idx) ==
    LET kind == Mermaid_line_kind(strip(ls[idx + 1]))
    IN  IF kind = "subgraph" THEN Mermaid_on_subgraph(s, ls, idx)
        ELSE IF kind = "end" THEN Mermaid_on_end(s, ls, idx)
        ELSE IF kind = "statement" THEN Mermaid_on_statement(s, ls, idx)
        ELSE Mermaid_on_skip(s, ls, idx)

\* 0-based index of the line after the declaration line, or len(lines)
RECURSIVE after_declaration(_, _)
after_declaration(ls, idx) ==
    IF idx >= Len(ls) THEN idx
    ELSE IF is_declaration(strip(ls[idx + 1])) THEN idx + 1
    ELSE after_declaration(ls, idx + 1)

RECURSIVE Mermaid_run(_, _, _)
Mermaid_run(s, ls, idx) ==
    IF idx >= Len(ls) THEN PlaybookGraph(s.nodes, s.edges)
    ELSE LET r == Mermaid_step(s, ls, idx)
         IN  IF r.raised THEN None ELSE Mermaid_run(r.self, ls, idx + 1)

\* MermaidParser().parse(c)
Mermaid_fresh_parse(c) ==
    LET ls == split(c, "\n")
    IN  Mermaid_run(Mermaid_reset(Mermaid_init), ls, after_declaration(ls, 0))

(***************************************************************************)
(* Inputs                                                                  *)
(***************************************************************************)
MaxLines == 4        \* lines of an outline document
MaxStatements == 3   \* lines after the declaration line of a diagram
MaxReuseLines == 2   \* lines (statements) of a text given to a reused parser

SeqsUpTo(S, n) == UNION {[1..k -> S] : k \in 0..n}

Text(ls) == join(ls, <<"\n">>)

md_header == <<"#", " ", "P">>
md_numbered == <<"1", ".", " ", "a">>
md_numbered_2 == <<"1", "2", ".", " ", "b">>
md_numbered_bare == <<"1", ".">>
md_bullet_bare == <<"-">>
md_if == <<"-", " ", "I", "f", " ", "x">>
md_else == <<"-", " ", "E", "l", "s", "e">>
md_branch_2 == <<" ", " ", "-", " ", "A">>
md_branch_4 == <<" ", " ", " ", " ", "*", " ", "i", "f", " ", "y">>
md_fence_sh == <<Backquote, Backquote, Backquote, "s", "h">>
md_fence == <<Backquote, Backquote, Backquote>>
md_text == <<"t">>
md_blank == <<>>

MarkdownLines ==
    {md_header, md_numbered, md_numbered_2, md_numbered_bare, md_bullet_bare, md_if, md_else,
     md_branch_2, md_branch_4, md_fence_sh, md_fence, md_text, md_blank}

MarkdownContents == {Text(ls) : ls \in SeqsUpTo(MarkdownLines, MaxLines)}

mm_flowchart == <<"f", "l", "o", "w", "c", "h", "a", "r", "t", " ", "T", "D">>
mm_Graph == <<"G", "r", "a", "p", "h", " ", "L", "R">>
mm_edge == <<"A", "[", "S", "]", " ", "-", "-", ">", " ", "B", "[", "N", "]">>
mm_edge_long == <<"B", " ", "-", "-", "-", ">", " ", "C", "[", "F", "]">>
mm_edge_longer == <<"C", " ", "-", "-", "-", "-", ">", " ", "D", "[", "E", "]">>
mm_edge_nosrc == <<"-", "-", ">", " ", "B">>
mm_edge_pipe == <<"A", " ", "-", "-", ">", " ", "|", "y", "|", " ", "B">>
mm_chain == <<"A", " ", "-", "-", ">", " ", "B", " ", "-", "-", ">", " ", "C">>
mm_chain4 == <<"A", " ", "-", "-", ">", " ", "B", " ", "-", "-", ">", " ", "C", " ", "-", "-", ">", " ", "D">>
mm_sub == <<"A", "[", "[", "S", "]", "]">>
mm_node == <<"B", "{", "D", "}">>
mm_lsolid == <<"A", " ", "-", "-", "L", "-", "-", ">", " ", "B">>
mm_ldotted == <<"A", " ", "-", ".", " ", "L", " ", ".", "-", ">", " ", "C">>
mm_lbold == <<"B", " ", "=", "=", "L", "=", "=", ">", " ", "A">>
mm_dotted == <<"A", " ", "-", ".", "-", ">", " ", "B">>
mm_bold == <<"B", " ", "=", "=", ">", " ", "C">>
mm_subgraph == <<"s", "u", "b", "g", "r", "a", "p", "h", " ", "G">>
mm_end == <<"e", "n", "d">>
mm_comment == <<"%", "%", " ", "c">>
mm_blank == <<>>

MermaidLines ==
    {mm_edge, mm_edge_long, mm_edge_longer, mm_edge_nosrc, mm_edge_pipe, mm_chain,
     mm_chain4, mm_sub, mm_node, mm_lsolid, mm_ldotted, mm_lbold, mm_dotted,
     mm_bold, mm_subgraph, mm_end, mm_comment, mm_blank}

\* diagrams with the declaration line, and a few texts whose first line the
\* declaration test does not recognise
MermaidContents ==
    {Text(<<mm_flowchart>> \o ls) : ls \in SeqsUpTo(MermaidLines, MaxStatements)}
    \cup {Text(<<mm_Graph>> \o ls) : ls \in SeqsUpTo(MermaidLines, 1)}
    \cup {<<>>}

md_otherwise == <<"*", " ", "O", "T", "H", "E", "R", "W", "I", "S", "E">>
md_quote == <<">", " ", "i", "f", " ", "x">>
md_plain == <<"1", ")", " ", "a">>
md_branch_3 == <<" ", " ", " ", "-", " ", "A">>

\* outlines of decisions, branches of every indentation and lines that no
\* rule of parse takes
MarkdownExtraContents ==
    {Text(ls) : ls \in SeqsUpTo({md_otherwise, md_quote, md_plain, md_branch_3, md_if,
                                 md_branch_2, md_branch_4, md_numbered, md_text},
                                MaxLines)}

mm_subgraph_bare == <<"s", "u", "b", "g", "r", "a", "p", "h">>
mm_self == <<"B", " ", "-", "-", ">", " ", "B">>

\* diagrams of nested groups
MermaidExtraContents ==
    {Text(<<mm_flowchart>> \o ls) :
        ls \in SeqsUpTo({mm_subgraph, mm_subgraph_bare, mm_end, mm_node, mm_edge,
                         mm_self}, MaxStatements + 1)}

\* the texts given to a parser instance that is used more than once
ReuseMarkdownContents ==
    {Text(ls) : ls \in SeqsUpTo({md_header, md_numbered, md_if, md_branch_2,
                                 md_fence, md_text}, MaxReuseLines)}

ReuseMermaidContents ==
    {Text(<<mm_flowchart>> \o ls) :
        ls \in SeqsUpTo({mm_edge, mm_node, mm_chain, mm_subgraph, mm_end,
                         mm_comment, mm_edge_nosrc}, MaxReuseLines)}

(***************************************************************************)
(* Actions                                                                 *)
(***************************************************************************)
\* no request is being handled / no answer was given yet
NoRequest == [content |-> None, format |-> None]

NoResponse == [status_code |-> 0, error |-> ""]

Returned == pc \in {"idle", "done", "raised"}

Init ==
    /\ cls = "markdown"
    /\ self = Markdown_init
    /\ content = <<>>
    /\ lines = <<>>
    /\ i = 0
    /\ pc = "idle"
    /\ result = None
    /\ residue = 0
    /\ request = NoRequest
    /\ response = NoResponse

\* MarkdownParser()
Markdown_new ==
    /\ Returned
    /\ cls' = "markdown"
    /\ self' = Markdown_init
    /\ content' = <<>>
    /\ lines' = <<>>
    /\ i' = 0
    /\ pc' = "idle"
    /\ result' = None
    /\ residue' = 0
    /\ UNCHANGED <<request, response>>

\* parser.parse(c) up to the scanning loop
Markdown_parse(c) ==
    /\ cls = "markdown"
    /\ Returned
    /\ self' = Markdown_reset(self)
    /\ content' = c
    /\ lines' = split(c, "\n")
    /\ i' = 0
    /\ pc' = "scan"
    /\ result' = None
    /\ residue' = self.node_counter
    /\ UNCHANGED <<cls, request, response>>

MarkdownScanning(kind) ==
    /\ cls = "markdown"
    /\ pc = "scan"
    /\ i < Len(lines)
    /\ Markdown_line_kind(strip(lines[i + 1])) = kind

\* the effect r = [self, idx] of one loop iteration; an exception leaves
\* parse()
MarkdownIteration(r) ==
    /\ IF Raised(r.self)
       THEN pc' = "raised" /\ UNCHANGED <<self, i>>
       ELSE pc' = pc /\ self' = r.self /\ i' = r.idx
    /\ UNCHANGED <<cls, content, lines, result, residue, request, response>>

Markdown_skip_empty ==
    MarkdownScanning("empty") /\ MarkdownIteration(Markdown_on_skip(self, lines, i))

Markdown_header ==
    MarkdownScanning("header") /\ MarkdownIteration(Markdown_on_header(self, lines, i))

Markdown_numbered ==
    MarkdownScanning("numbered") /\ MarkdownIteration(Markdown_on_numbered(self, lines, i))

Markdown_bullet ==
    MarkdownScanning("bullet")
    /\ MarkdownIteration(Markdown_parse_bullet_point(self, lines, i))

Markdown_code ==
    MarkdownScanning("code") /\ MarkdownIteration(Markdown_parse_code_block(self, lines, i))

Markdown_skip_other ==
    MarkdownScanning("other") /\ MarkdownIteration(Markdown_on_skip(self, lines, i))

Markdown_return ==
    /\ cls = "markdown"
    /\ pc = "scan"
    /\ i >= Len(lines)
    /\ pc' = "done"
    /\ result' = PlaybookGraph(self.nodes, self.edges)
    /\ UNCHANGED <<cls, self, content, lines, i, residue, request, response>>

\* MermaidParser()
Mermaid_new ==
    /\ Returned
    /\ cls' = "mermaid"
    /\ self' = Mermaid_init
    /\ content' = <<>>
    /\ lines' = <<>>
    /\ i' = 0
    /\ pc' = "idle"
    /\ result' = None
    /\ residue' = 0
    /\ UNCHANGED <<request, response>>

\* parser.parse(c) up to the first loop
Mermaid_parse(c) ==
    /\ cls = "mermaid"
    /\ Returned
    /\ self' = Mermaid_reset(self)
    /\ content' = c
    /\ lines' = split(c, "\n")
    /\ i' = 0
    /\ pc' = "skip"
    /\ result' = None
    /\ residue' = self.node_counter
    /\ UNCHANGED <<cls, request, response>>

\* one iteration of the "Skip to flowchart/graph declaration" loop
Mermaid_skip_to_declaration ==
    /\ cls = "mermaid"
    /\ pc = "skip"
    /\ i < Len(lines)
    /\ i' = i + 1
    /\ pc' = IF is_declaration(strip(lines[i + 1])) THEN "scan" ELSE "skip"
    /\ UNCHANGED <<cls, self, content, lines, result, residue, request, response>>

MermaidScanning(kind) ==
    /\ cls = "mermaid"
    /\ pc = "scan"
    /\ i < Len(lines)
    /\ Mermaid_line_kind(strip(lines[i + 1])) = kind

\* the effect r = [self, raised] of one iteration of the second loop; a
\* ValidationError leaves parse() without a result
MermaidIteration(r) ==
    /\ self' = r.self
    /\ IF r.raised
       THEN pc' = "raised" /\ i' = i
       ELSE pc' = pc /\ i' = i + 1
    /\ UNCHANGED <<cls, content, lines, result, residue, request, response>>

Mermaid_skip_line ==
    MermaidScanning("skip") /\ MermaidIteration(Mermaid_on_skip(self, lines, i))

Mermaid_subgraph_start ==
    MermaidScanning("subgraph") /\ MermaidIteration(Mermaid_on_subgraph(self, lines, i))

Mermaid_subgraph_end ==
    MermaidScanning("end") /\ MermaidIteration(Mermaid_on_end(self, lines, i))

Mermaid_statement ==
    MermaidScanning("statement") /\ MermaidIteration(Mermaid_on_statement(self, lines, i))

\* both loops are over: return PlaybookGraph(nodes, edges)
Mermaid_return ==
    /\ cls = "mermaid"
    /\ pc \in {"skip", "scan"}
    /\ i >= Len(lines)
    /\ pc' = "done"
    /\ result' = PlaybookGraph(self.nodes, self.edges)
    /\ UNCHANGED <<cls, self, content, lines, i, residue, request, response>>

Scan ==
    \/ Markdown_skip_empty
    \/ Markdown_header
    \/ Markdown_numbered
    \/ Markdown_bullet
    \/ Markdown_code
    \/ Markdown_skip_other
    \/ Markdown_return
    \/ Mermaid_skip_to_declaration
    \/ Mermaid_skip_line
    \/ Mermaid_subgraph_start
    \/ Mermaid_subgraph_end
    \/ Mermaid_statement
    \/ Mermaid_return

\* one conversion per parser instance: parse is called on a fresh instance
Next ==
    \/ Markdown_new
    \/ Mermaid_new
    \/ pc = "idle" /\ \E c \in MarkdownContents \cup MarkdownExtraContents :
                          Markdown_parse(c)
    \/ pc = "idle" /\ \E c \in MermaidContents \cup MermaidExtraContents :
                          Mermaid_parse(c)
    \/ Scan

Spec == Init /\ [][Next]_vars

\* a parser instance is used for several conversions, one after the other
NextReuse ==
    \/ Markdown_new
    \/ Mermaid_new
    \/ \E c \in ReuseMarkdownContents : Markdown_parse(c)
    \/ \E c \in ReuseMermaidContents : Mermaid_parse(c)
    \/ Scan

SpecReuse == Init /\ [][NextReuse]_vars

(***************************************************************************)
(* api/routers/parse.py: detect_format and the POST /parse handler         *)
(***************************************************************************)
MAX_CONTENT_SIZE == 100 * 1024
MAX_NODES == 500
MAX_EDGES == 1000

s_markdown == <<"m", "a", "r", "k", "d", "o", "w", "n">>
s_mermaid == <<"m", "e", "r", "m", "a", "i", "d">>

\* a character Python encodes in two bytes of UTF-8 (e with acute accent)
EAcute == "EACUTE"

\* len(s.encode('utf-8'))
utf8_len(s) == Len(s) + Cardinality({k \in 1..Len(s) : s[k] = EAcute})

\* (TD|LR|TB|RL|BT)
directions == {<<"T", "D">>, <<"L", "R">>, <<"T", "B">>, <<"R", "L">>, <<"B", "T">>}

\* s starts with the literal p, under re.IGNORECASE
startswith_ignorecase(s, p) ==
    /\ Len(s) >= Len(p)
    /\ \A k \in 1..Len(p) : lower_char(s[k]) = lower_char(p[k])

\* length of the run of whitespace \s+ takes at the start of s
RECURSIVE space_prefix(_)
space_prefix(s) ==
    IF s # <<>> /\ IsSpace(Head(s)) THEN 1 + space_prefix(Tail(s)) ELSE 0

\* re.match(r'^<keyword>\s+(TD|LR|TB|RL|BT)', text, re.IGNORECASE)
match_declaration(text, keyword) ==
    /\ startswith_ignorecase(text, keyword)
    /\ LET rest == slice_from(text, Len(keyword))
           n    == space_prefix(rest)
       IN  /\ n >= 1
           /\ \E d \in directions : startswith_ignorecase(slice_from(rest, n), d)

\* faulty variant: the patterns are matched without re.IGNORECASE
detect_format_exact(c) ==
    LET content_stripped == strip(c)
        exact(kw) ==
            /\ startswith(content_stripped, kw)
            /\ LET rest == slice_from(content_stripped, Len(kw))
                   n    == space_prefix(rest)
               IN  n >= 1 /\ \E d \in directions : startswith(slice_from(rest, n), d)
    IN  IF exact(s_flowchart) \/ exact(s_graph) THEN s_mermaid ELSE s_markdown

detect_format(c) ==
    LET content_stripped == strip(c)
    IN  IF \/ match_declaration(content_stripped, s_flowchart)
           \/ match_declaration(content_stripped, s_graph)
        THEN s_mermaid
        ELSE s_markdown

ErrorResponse(status_code, error) == [status_code |-> status_code, error |-> error]

\* format_type of the handler
Api_format_type(req) ==
    IF req.format = None THEN detect_format(strip(req.content)) ELSE lower(req.format)

\* the answers the handler gives before it builds a parser, or NoResponse
Api_early_response(req) ==
    IF utf8_len(req.content) > MAX_CONTENT_SIZE
    THEN ErrorResponse(413, "Content too large")
    ELSE IF strip(req.content) = <<>>
    THEN ErrorResponse(400, "Empty content")
    ELSE IF Api_format_type(req) \notin {s_markdown, s_mermaid}
    THEN ErrorResponse(422, "Invalid format")
    ELSE NoResponse

\* faulty variant: an exception of the converter is passed on
Api_late_response_propagates(outcome, graph, format_type) ==
    IF outcome = "raised" THEN ErrorResponse(500, "Internal Server Error")
    ELSE IF Len(graph.nodes) > MAX_NODES THEN ErrorResponse(422, "Too many nodes")
    ELSE IF Len(graph.edges) > MAX_EDGES THEN ErrorResponse(422, "Too many edges")
    ELSE [status_code |-> 200, error |-> "", nodes |-> graph.nodes,
          edges |-> graph.edges, format |-> format_type,
          node_count |-> Len(graph.nodes), edge_count |-> Len(graph.edges)]

\* the answer of the handler once parser.parse has returned or raised
Api_late_response(outcome, graph, format_type) ==
    IF outcome = "raised" THEN ErrorResponse(400, "Parse failed")
    ELSE IF Len(graph.nodes) > MAX_NODES THEN ErrorResponse(422, "Too many nodes")
    ELSE IF Len(graph.edges) > MAX_EDGES THEN ErrorResponse(422, "Too many edges")
    ELSE [status_code |-> 200, error |-> "", nodes |-> graph.nodes,
          edges |-> graph.edges, format |-> format_type,
          node_count |-> Len(graph.nodes), edge_count |-> Len(graph.edges)]

\* parse_content(request) up to the scanning loop of the parser it builds
Api_parse_content(req) ==
    /\ pc = "idle"
    /\ response = NoResponse
    /\ request = NoRequest
    /\ request' = req
    /\ LET early == Api_early_response(req)
           c     == strip(req.content)
           md    == Api_format_type(req) = s_markdown
       IN  IF early # NoResponse
           THEN /\ response' = early
                /\ UNCHANGED <<cls, self, content, lines, i, pc, result, residue>>
           ELSE /\ response' = NoResponse
                /\ cls' = IF md THEN "markdown" ELSE "mermaid"
                /\ self' = IF md THEN Markdown_reset(Markdown_init)
                           ELSE Mermaid_reset(Mermaid_init)
                /\ content' = c
                /\ lines' = split(c, "\n")
                /\ i' = 0
                /\ pc' = IF md THEN "scan" ELSE "skip"
                /\ result' = None
                /\ residue' = 0

\* parse_content(request) from the return (or the exception) of parser.parse
Api_respond ==
    /\ pc \in {"done", "raised"}
    /\ request # NoRequest
    /\ response = NoResponse
    /\ response' = Api_late_response(pc, result,
                       IF cls = "markdown" THEN s_markdown ELSE s_mermaid)
    /\ UNCHANGED <<cls, self, content, lines, i, pc, result, residue, request>>

\* s * n: s repeated n times
Times(s, n) == <<>> \o [k \in 1..(n * Len(s)) |-> s[((k - 1) % Len(s)) + 1]]

\* the text of n lines `line`
Repeat(line, n) == SubSeq(Times(line \o <<"\n">>, n), 1, n * (Len(line) + 1) - 1)

api_outline == Text(<<md_header, md_blank, md_numbered, md_if, md_branch_2,
                      md_branch_2, md_text, md_fence_sh, md_text, md_fence>>)
api_diagram == Text(<<mm_flowchart, mm_comment, mm_subgraph, mm_edge, mm_end, mm_node>>)
api_diagram_upper == Text(<<mm_Graph, mm_edge>>)
api_diagram_bad == Text(<<mm_flowchart, mm_edge, mm_edge_nosrc, mm_node>>)
api_padded == <<" ", "\n">> \o Text(<<mm_flowchart, mm_chain>>) \o <<"\n", " ">>

\* a decision with 8 branches: 10 nodes (decision, branches, merge) and 16
\* edges, and one more edge from the block before it
api_decision_block == md_if \o <<"\n">> \o Repeat(md_branch_2, 8)

\* a labelled statement with 10 targets: 10 edges
api_fan_statement ==
    <<"A", " ", "-", "-", " ", "t", " ", "-", "-", ">", " ", "B">>
        \o Times(<<" ", "-", ".", "-", ">", " ", "C">>, 9)

\* texts of a few lines, sent with and without an explicit format
ApiSmallContents ==
    {api_outline, api_diagram, api_diagram_upper, api_diagram_bad, api_padded,
     <<" ">>, <<"\n", "\t", "\n">>, md_text, <<EAcute>>}

\* texts at and just over the limits of the handler: size in bytes, nodes,
\* edges, and nodes and edges together
ApiLargeContents ==
    {Times(<<"x">>, MAX_CONTENT_SIZE),
     Times(<<"x">>, MAX_CONTENT_SIZE + 1),
     Times(<<" ">>, MAX_CONTENT_SIZE + 1),
     Times(<<EAcute>>, MAX_CONTENT_SIZE \div 2),
     Times(<<EAcute>>, MAX_CONTENT_SIZE \div 2 + 1),
     Repeat(api_decision_block, MAX_NODES \div 10),
     Repeat(api_decision_block, MAX_NODES \div 10) \o <<"\n">> \o md_numbered,
     Repeat(api_decision_block, MAX_EDGES \div 17 + 1),
     mm_flowchart \o <<"\n">> \o Repeat(api_fan_statement, MAX_EDGES \div 10),
     mm_flowchart \o <<"\n">> \o Repeat(api_fan_statement, MAX_EDGES \div 10)
         \o <<"\n">> \o mm_dotted}

ApiRequests ==
    {[content |-> c, format |-> f] :
        c \in ApiSmallContents, f \in {None, s_markdown, s_mermaid}}
    \cup {[content |-> c, format |-> None] : c \in ApiLargeContents}

\* the endpoint handles one request
NextApi ==
    \/ pc = "idle" /\ \E req \in ApiRequests : Api_parse_content(req)
    \/ Scan
    \/ Api_respond

SpecApi == Init /\ [][NextApi]_vars

(***************************************************************************)
(* detect_format alone, on texts around the two declaration patterns       *)
(***************************************************************************)
DetectPrefixes == {<<>>, <<" ">>, <<"\n", "\t">>}

DetectKeywords ==
    {s_flowchart, s_graph,
     <<"F", "l", "o", "w", "C", "h", "a", "r", "t">>, <<"G", "R", "A", "P", "H">>,
     <<"f", "l", "o", "w">>, <<"g", "r", "a", "p", "h", "s">>,
     <<"x", "g", "r", "a", "p", "h">>, <<"d", "i", "a", "g", "r", "a", "m">>}

DetectSeparators ==
    {<<>>, <<" ">>, <<"\t">>, <<" ", " ">>, <<"\n">>, <<" ", "\n", "\t">>, <<"-">>}

DetectDirections ==
    {<<"T", "D">>, <<"L", "R">>, <<"T", "B">>, <<"R", "L">>, <<"B", "T">>,
     <<"t", "d">>, <<"L", "r">>, <<"D", "T">>, <<"T">>, <<>>}

DetectRests == {<<>>, <<" ">>, <<"X">>, <<"\n", "A", "-", "-", ">", "B">>}

\* the texts detect_format is applied to
DetectTexts ==
    {p \o k \o s \o d \o r :
        p \in DetectPrefixes, k \in DetectKeywords, s \in DetectSeparators,
        d \in DetectDirections, r \in DetectRests}
    \cup {<<>>, api_outline, md_text, <<"#", " ", "g", "r", "a", "p", "h", " ", "T", "D">>}

InitDetect ==
    /\ cls = "markdown"
    /\ self = Markdown_init
    /\ content \in DetectTexts
    /\ lines = <<>>
    /\ i = 0
    /\ pc = "idle"
    /\ result = None
    /\ residue = 0
    /\ request = NoRequest
    /\ response = NoResponse

\* format_type = detect_format(content)
Detect ==
    /\ pc = "idle"
    /\ pc' = "detected"
    /\ result' = detect_format(content)
    /\ UNCHANGED <<cls, self, content, lines, i, residue, request, response>>

NextDetect == Detect

SpecDetect == InitDetect /\ [][NextDetect]_vars

(***************************************************************************)
(* Properties                                                              *)
(***************************************************************************)
Ids(seq) == {seq[k].id : k \in 1..Len(seq)}

DistinctIds(seq) == \A a, b \in 1..Len(seq) : a # b => seq[a].id # seq[b].id

IsBranch(node) == "branch" \in DOMAIN node.metadata

Count(seq, Test(_)) == Len(SelectSeq(seq, Test))

\* C1: in every graph returned by either converter, the source and the
\* target of every edge are ids of nodes of that graph's node list.
C1_ReferentialIntegrity ==
    pc = "done" =>
        \A k \in 1..Len(result.edges) :
            /\ result.edges[k].source \in Ids(result.nodes)
            /\ result.edges[k].target \in Ids(result.nodes)

\* a diagram was converted to a graph whose edges leave more than one node
C1_Witness ==
    /\ pc = "done"
    /\ cls = "mermaid"
    /\ \E a, b \in 1..Len(result.edges) : result.edges[a].source # result.edges[b].source

\* C2: in every graph returned by either converter the node ids are pairwise
\* distinct and the edge ids are pairwise distinct.
C2_UniqueIds ==
    pc = "done" => DistinctIds(result.nodes) /\ DistinctIds(result.edges)

\* an outline was converted to a graph with several nodes and edges
C2_Witness ==
    pc = "done" /\ cls = "markdown" /\ Len(result.nodes) >= 4 /\ Len(result.edges) >= 4

\* C3: MermaidParser.parse never raises; a statement with an unparseable
\* source or target fragment is dropped and the scan goes on.
C3_MermaidNeverRaises == ~(cls = "mermaid" /\ pc = "raised")

\* C4: MarkdownParser.parse never raises and never stops early: every loop
\* iteration on a line of the document consumes at least that line and
\* leaves the parser scanning.
C4_MarkdownNeverFails ==
    [][(cls = "markdown" /\ pc = "scan" /\ i < Len(lines))
          => (pc' = "scan" /\ i' > i)]_vars

\* a document of a numbered item without text, a bullet without text, a
\* decision without children and an unclosed code fence was converted
C4_Witness ==
    /\ pc = "done"
    /\ cls = "markdown"
    /\ lines = <<md_numbered_bare, md_bullet_bare, md_if, md_fence>>
    /\ Len(result.nodes) = 3

\* C5: in every returned graph the k-th node (from 0) has id node_k and the
\* k-th edge has id edge_k.
C5_SequentialIds ==
    pc = "done" =>
        /\ \A k \in 1..Len(result.nodes) : result.nodes[k].id = s_node_ \o str(k - 1)
        /\ \A k \in 1..Len(result.edges) : result.edges[k].id = s_edge_ \o str(k - 1)

\* a diagram was converted to a graph with more edges than nodes
C5_Witness ==
    /\ pc = "done"
    /\ cls = "mermaid"
    /\ Len(result.nodes) >= 2
    /\ Len(result.edges) > Len(result.nodes)

\* what a fresh instance of the live parser's class returns for the content
FreshParse ==
    IF cls = "markdown" THEN Markdown_fresh_parse(content)
    ELSE Mermaid_fresh_parse(content)

\* C6: the result of parse depends only on the input text: a parser used
\* before returns what a fresh parser returns, and a call starts from the
\* fields of a fresh instance.
C6_Deterministic ==
    /\ pc = "done" => result = FreshParse
    /\ pc = "raised" => FreshParse = None
    /\ (cls = "markdown" /\ pc = "scan" /\ i = 0) => self = Markdown_init
    /\ (cls = "mermaid" /\ pc = "skip") => self = Mermaid_init

\* a parser that held another conversion's nodes returned a graph
C6_Witness ==
    /\ pc = "done"
    /\ residue > 0
    /\ residue # self.node_counter
    /\ Len(result.nodes) > 0

\* number of consecutive indented bullets from the 0-based index idx on
RECURSIVE indented_run(_, _)
indented_run(ls, idx) ==
    IF idx < Len(ls) /\ is_indented_bullet(ls[idx + 1])
    THEN 1 + indented_run(ls, idx + 1)
    ELSE 0

\* text of the bullet on the 0-based line idx
BulletText(ls, idx) == strip(slice_from(strip(ls[idx + 1]), 1))

\* the main loop is at a decision bullet without else/otherwise
AtPlainDecision ==
    /\ cls = "markdown"
    /\ pc = "scan"
    /\ i < Len(lines)
    /\ Markdown_line_kind(strip(lines[i + 1])) = "bullet"
    /\ is_decision(BulletText(lines, i))
    /\ ~contains(lower(BulletText(lines, i)), s_else)
    /\ ~contains(lower(BulletText(lines, i)), s_otherwise)

IsDecisionNode(node) == node.type = s_decision
IsMergeNode(node) == node.type = s_merge

\* the nodes and edges a step added, as triples for the edges
Added(old, new) == SubSeq(new, Len(old) + 1, Len(new))
Triples(es) == {<<es[k].source, es[k].target, es[k].label>> : k \in 1..Len(es)}

\* the shape of a decision block of k branches that begins with the node d
DecisionBlockShape(nodes, edges, k) ==
    LET d  == nodes[1]
        br == SelectSeq(nodes, IsBranch)
        mg == SelectSeq(nodes, IsMergeNode)
        es == SelectSeq(edges, LAMBDA e : e.target # d.id)
    IN  /\ Len(nodes) = k + 2
        /\ IsDecisionNode(d)
        /\ Count(nodes, IsDecisionNode) = 1
        /\ Len(br) = k
        /\ \A j \in 1..k : br[j].type = s_step
        /\ Len(mg) = 1
        /\ mg[1].label = s_Continue
        /\ Len(es) = 2 * k
        /\ Triples(es) =
              {<<d.id, br[j].id, IF j = 1 THEN s_yes ELSE s_no>> : j \in 1..k}
              \cup {<<br[j].id, mg[1].id, None>> : j \in 1..k}

\* C7: a decision bullet without else/otherwise followed by k >= 2 indented
\* bullets adds one decision node, k branch step nodes and one merge node
\* labelled Continue, an edge decision -> branch per branch, labelled yes for
\* the first and no for the others, and an unlabelled edge from every branch
\* to the merge node.
C7_DecisionBlock ==
    [][(AtPlainDecision /\ indented_run(lines, i + 1) >= 2)
          => DecisionBlockShape(Added(self.nodes, self'.nodes),
                                Added(self.edges, self'.edges),
                                indented_run(lines, i + 1))]_vars

\* a decision with three branches, one of them holding a keyword, was converted
C7_Witness ==
    /\ pc = "done"
    /\ cls = "markdown"
    /\ lines = <<md_if, md_branch_2, md_branch_4, md_branch_2>>
    /\ Len(result.nodes) = 5

\* an `If` bullet with indented children, then a top-level `Else` bullet with
\* indented children, and nothing else
IfElseDocument(ls) ==
    /\ Len(ls) >= 4
    /\ startswith(lower(BulletText(ls, 0)), <<"i", "f", " ">>)
    /\ ~is_indented_bullet(ls[1])
    /\ indented_run(ls, 1) >= 1
    /\ LET e == 1 + indented_run(ls, 1)
       IN  /\ e < Len(ls)
           /\ Markdown_line_kind(ls[e + 1]) = "bullet"
           /\ lower(BulletText(ls, e)) = s_else
           /\ indented_run(ls, e + 1) >= 1
           /\ e + 1 + indented_run(ls, e + 1) = Len(ls)

\* C8: an If bullet with children followed by a top-level Else bullet with
\* children yields exactly one decision node and at least two branch nodes.
C8_ElseJoinsDecision ==
    (cls = "markdown" /\ pc = "done" /\ IfElseDocument(lines))
        => /\ Count(result.nodes, IsDecisionNode) = 1
           /\ Count(result.nodes, IsBranch) >= 2

\* C9: the fragment A[[S]] yields a step node whose label is exactly S.
C9_DoubleBracketLabel ==
    (cls = "mermaid" /\ pc = "done" /\ Len(lines) >= 2 /\ lines[1] = mm_flowchart
        /\ lines[2] = mm_sub)
        => /\ Len(result.nodes) >= 1
           /\ result.nodes[1].type = s_step
           /\ result.nodes[1].label = <<"S">>

\* C10: the lines A[S] --> B[N], B ---> C[F], C ----> D[E] after a
\* declaration are converted to at least 3 nodes and at least 2 edges.
C10_LongArrows ==
    (cls = "mermaid" /\ pc \in {"done", "raised"}
        /\ lines = <<mm_flowchart, mm_edge, mm_edge_long, mm_edge_longer>>)
        => /\ pc = "done"
           /\ Len(result.nodes) >= 3
           /\ Len(result.edges) >= 2

\* the nodes of a node list that stand for the diagram identifier ident
NodesOf(nodes, ident) ==
    {k \in 1..Len(nodes) :
        "mermaid_id" \in DOMAIN nodes[k].metadata /\ nodes[k].metadata.mermaid_id = ident}

\* C11: the statement A --> B --> C --> D creates one node for each of
\* A, B, C and D, 4 nodes in all, and at least one edge.
C11_ChainOfFour ==
    (cls = "mermaid" /\ pc \in {"done", "raised"}
        /\ lines = <<mm_flowchart, mm_chain4>>)
        => /\ pc = "done"
           /\ Len(result.nodes) = 4
           /\ \A ident \in {<<"A">>, <<"B">>, <<"C">>, <<"D">>} :
                  Cardinality(NodesOf(result.nodes, ident)) = 1
           /\ Len(result.edges) >= 1

\* C12: at every point of a diagram conversion no two nodes carry the same
\* metadata.mermaid_id, however often and in whatever form the statements
\* name the identifier.
C12_OneNodePerIdentifier ==
    cls = "mermaid" =>
        \A a, b \in 1..Len(self.nodes) :
            ("mermaid_id" \in DOMAIN self.nodes[a].metadata
                /\ "mermaid_id" \in DOMAIN self.nodes[b].metadata
                /\ self.nodes[a].metadata.mermaid_id = self.nodes[b].metadata.mermaid_id)
            => a = b

\* A was defined alone with a shape, then named as a source with another
\* shape and as a target without one
C12_Witness ==
    /\ pc = "done"
    /\ cls = "mermaid"
    /\ lines = <<mm_flowchart, mm_sub, mm_edge, mm_lbold>>
    /\ Cardinality(NodesOf(result.nodes, <<"A">>)) = 1
    /\ Len(result.edges) = 2

\* the line is a numbered item with some text after the marker
IsNumberedItem(line) == is_numbered(strip(line)) /\ numbered_text(strip(line)) # None

AtDecision ==
    /\ cls = "markdown"
    /\ pc = "scan"
    /\ i < Len(lines)
    /\ Markdown_line_kind(strip(lines[i + 1])) = "bullet"
    /\ is_decision(BulletText(lines, i))

\* the shape of a decision block with a single branch
SingleBranchShape(nodes, edges) ==
    LET d  == nodes[1]
        es == SelectSeq(edges, LAMBDA e : e.target # d.id)
    IN  /\ Len(nodes) = 2
        /\ IsDecisionNode(d)
        /\ IsBranch(nodes[2])
        /\ nodes[2].type = s_step
        /\ Count(nodes, IsMergeNode) = 0
        /\ Len(es) = 1
        /\ es[1].source = d.id
        /\ es[1].target = nodes[2].id
        /\ es[1].label \in {s_yes, s_no}

\* C14: a decision bullet followed by exactly one indented bullet adds the
\* decision node, one branch step node and one labelled edge decision ->
\* branch, and no merge node.
C14_SingleBranchNoMerge ==
    [][(AtDecision /\ indented_run(lines, i + 1) = 1)
          => SingleBranchShape(Added(self.nodes, self'.nodes),
                               Added(self.edges, self'.edges))]_vars

\* a decision with one child, followed by a numbered item, was converted
C14_Witness ==
    /\ pc = "done"
    /\ cls = "markdown"
    /\ lines = <<md_if, md_branch_2, md_numbered>>
    /\ Len(result.nodes) = 3
    /\ Count(result.nodes, IsMergeNode) = 0

\* the main loop is at a line that starts with a code fence
AtFence ==
    /\ cls = "markdown"
    /\ pc = "scan"
    /\ i < Len(lines)
    /\ Markdown_line_kind(strip(lines[i + 1])) = "code"

IsFenceLine(line) == startswith(strip(line), s_fence)

\* 1-based position of the first fence line after the 1-based position
\* open, or Len(ls) + 1 when the block is not closed
ClosingFence(ls, open) ==
    LET later == {j \in (open + 1)..Len(ls) : IsFenceLine(ls[j])}
    IN  IF later = {} THEN Len(ls) + 1
        ELSE CHOOSE j \in later : \A k \in later : j <= k

\* the execute node of the block opened on the 1-based line open
IsBlockNode(node, ls, open) ==
    LET enclosed == SubSeq(ls, open + 1, ClosingFence(ls, open) - 1)
        language == strip(SubSeq(strip(ls[open]), 4, Len(strip(ls[open]))))
    IN  /\ node.type = s_execute
        /\ DOMAIN node.metadata = {"code", "language"}
        /\ IF enclosed = <<>> THEN node.metadata.code = <<>>
           ELSE split(node.metadata.code, "\n") = enclosed
        /\ node.metadata.language = language
        /\ node.label = IF language = <<>> THEN s_Execute_code
                        ELSE s_Execute_ \o language

\* C15: the iteration on a fence line adds exactly one execute node that
\* holds the enclosed lines unchanged, joined by newlines, in metadata.code,
\* the text after the opening fence in metadata.language and the label
\* Execute <language> or Execute code; no enclosed line is dispatched and the
\* scan resumes after the closing fence.
C15_CodeBlock ==
    [][AtFence
          => /\ Len(self'.nodes) = Len(self.nodes) + 1
             /\ IsBlockNode(self'.nodes[Len(self'.nodes)], lines, i + 1)
             /\ pc' = "scan"
             /\ i' = ClosingFence(lines, i + 1)]_vars

\* a block that holds a numbered item was converted, and the numbered item
\* after the closing fence too
C15_Witness ==
    /\ pc = "done"
    /\ cls = "markdown"
    /\ lines = <<md_fence_sh, md_numbered, md_fence, md_numbered_2>>
    /\ Len(result.nodes) = 2
    /\ result.nodes[1].metadata.code = md_numbered

\* statements of one arrow: the line, its source and target identifiers and
\* the label the arrow carries
ArrowStatements ==
    {[line |-> mm_lsolid,  source |-> <<"A">>, target |-> <<"B">>, label |-> <<"L">>],
     [line |-> mm_ldotted, source |-> <<"A">>, target |-> <<"C">>, label |-> <<"L">>],
     [line |-> mm_lbold,   source |-> <<"B">>, target |-> <<"A">>, label |-> <<"L">>],
     [line |-> mm_edge,    source |-> <<"A">>, target |-> <<"B">>, label |-> None],
     [line |-> mm_dotted,  source |-> <<"A">>, target |-> <<"B">>, label |-> None],
     [line |-> mm_bold,    source |-> <<"B">>, target |-> <<"C">>, label |-> None]}

\* the main loop of the diagram converter is at the statement line
AtStatement(line) ==
    /\ cls = "mermaid"
    /\ pc = "scan"
    /\ i < Len(lines)
    /\ strip(lines[i + 1]) = line

\* C16: a statement S --L--> T, S -.L.-> T or S ==L==> T adds exactly one
\* edge, from the node of S to the node of T, labelled with the trimmed L;
\* a statement with -->, -.-> or ==> adds exactly one such edge with a null
\* label.
C16_ArrowLabels ==
    [][\A st \in ArrowStatements :
          AtStatement(st.line)
          => LET es == Added(self.edges, self'.edges)
             IN  /\ pc' = "scan"
                 /\ Len(es) = 1
                 /\ \E k \in NodesOf(self'.nodes, st.source) :
                        es[1].source = self'.nodes[k].id
                 /\ \E k \in NodesOf(self'.nodes, st.target) :
                        es[1].target = self'.nodes[k].id
                 /\ es[1].label = st.label]_vars

\* a diagram of a labelled solid, a labelled dotted and a bold arrow was
\* converted
C16_Witness ==
    /\ pc = "done"
    /\ cls = "mermaid"
    /\ lines = <<mm_flowchart, mm_lsolid, mm_ldotted, mm_bold>>
    /\ Len(result.edges) = 3
    /\ result.edges[2].label = <<"L">>
    /\ result.edges[3].label = None

\* C19: for the chained statement A --> B --> C the returned graph has an
\* edge from the node of A to the node of B.
C19_FirstPairOfChain ==
    (cls = "mermaid" /\ pc \in {"done", "raised"}
        /\ lines = <<mm_flowchart, mm_chain>>)
        => /\ pc = "done"
           /\ \E e \in 1..Len(result.edges) :
                  /\ \E k \in NodesOf(result.nodes, <<"A">>) :
                         result.edges[e].source = result.nodes[k].id
                  /\ \E k \in NodesOf(result.nodes, <<"B">>) :
                         result.edges[e].target = result.nodes[k].id

\* the main loop is at a line whose trimmed text matches ^\d+\.
AtNumbered ==
    /\ cls = "markdown"
    /\ pc = "scan"
    /\ i < Len(lines)
    /\ is_numbered(strip(lines[i + 1]))

\* C20: the iteration on a line whose trimmed text matches ^\d+\. adds
\* exactly one step node with step_type sequential, adds an edge from
\* lastNodeId to it when lastNodeId exists, and leaves lastNodeId on it.
C20_NumberedItem ==
    [][AtNumbered
          => LET ns == Added(self.nodes, self'.nodes)
                 es == Added(self.edges, self'.edges)
             IN  /\ Len(ns) = 1
                 /\ ns[1].type = s_step
                 /\ ns[1].metadata = [step_type |-> s_sequential]
                 /\ self'.last_node_id = ns[1].id
                 /\ IF Truthy(self.last_node_id)
                    THEN /\ Len(es) = 1
                         /\ es[1].source = self.last_node_id
                         /\ es[1].target = ns[1].id
                    ELSE es = <<>>]_vars

\* the text, trimmed, begins with `flowchart` or `graph`, then one or more
\* whitespace characters, then a direction, letter case ignored
IsMermaidText(c) ==
    LET t == strip(c)
    IN  \E kw \in {s_flowchart, s_graph} :
        \E n \in 1..Len(t) :
        \E d \in {<<"t", "d">>, <<"l", "r">>, <<"t", "b">>, <<"r", "l">>, <<"b", "t">>} :
            /\ Len(t) >= Len(kw) + n + Len(d)
            /\ lower(SubSeq(t, 1, Len(kw))) = kw
            /\ \A k \in 1..n : IsSpace(t[Len(kw) + k])
            /\ lower(SubSeq(t, Len(kw) + n + 1, Len(kw) + n + Len(d))) = d

\* C17: detect_format returns `mermaid` exactly when the trimmed text begins
\* with `flowchart` or `graph` followed by whitespace and one of TD, LR, TB,
\* RL, BT, compared case-insensitively, and `markdown` for every other text,
\* the empty text included; it returns one of the two for every text.
C17_DetectFormat ==
    pc = "detected" =>
        /\ result \in {s_mermaid, s_markdown}
        /\ result = s_mermaid <=> IsMermaidText(content)
        /\ content = <<>> => result = s_markdown

\* a declaration in mixed case after leading whitespace is detected as mermaid
C17_Witness ==
    /\ pc = "detected"
    /\ result = s_mermaid
    /\ content # strip(content)
    /\ lower(content) # content

\* C18: the parse endpoint answers with a success response only when the
\* content is at most 100KB, is not blank after trimming, the chosen converter
\* did not raise, and the graph has at most 500 nodes and at most 1000 edges;
\* otherwise it answers 413 (content too large), 400 (blank content or a
\* converter exception) or 422 (node or edge limit exceeded), the checks being
\* applied in that order; the answer to a converter exception is a 400
\* response, never the exception.
C18_EndpointAnswers ==
    response # NoResponse =>
        LET size      == utf8_len(request.content)
            blank     == strip(request.content) = <<>>
            too_large == size > 100 * 1024
            parsed    == ~too_large /\ ~blank /\ pc = "done"
        IN  /\ response.status_code \in {200, 400, 413, 422}
            /\ pc \in {"idle", "done", "raised"}
            /\ too_large => response.status_code = 413 /\ pc = "idle"
            /\ ~too_large /\ blank => response.status_code = 400 /\ pc = "idle"
            /\ ~too_large /\ ~blank => pc \in {"done", "raised"}
            /\ ~too_large /\ ~blank /\ pc = "raised" => response.status_code = 400
            /\ parsed /\ Len(result.nodes) > 500 =>
                   response.status_code = 422 /\ response.error = "Too many nodes"
            /\ parsed /\ Len(result.nodes) <= 500 /\ Len(result.edges) > 1000 =>
                   response.status_code = 422 /\ response.error = "Too many edges"
            /\ parsed /\ Len(result.nodes) <= 500 /\ Len(result.edges) <= 1000 =>
                   /\ response.status_code = 200
                   /\ response.nodes = result.nodes
                   /\ response.edges = result.edges

\* a graph over both limits is answered with 422 for its nodes
C18_Witness ==
    /\ response # NoResponse
    /\ pc = "done"
    /\ Len(result.nodes) > MAX_NODES
    /\ Len(result.edges) > MAX_EDGES
    /\ response.status_code = 422

\* index of the last decision node of a node list, 0 when it has none
LastDecision(nodes) ==
    LET ds == {k \in 1..Len(nodes) : IsDecisionNode(nodes[k])}
    IN  IF ds = {} THEN 0 ELSE CHOOSE k \in ds : \A j \in ds : j <= k

\* the last nodes created are those of a decision block: the decision node
\* and, after it, only its branch nodes and its merge node
AfterDecisionBlock(nodes) ==
    /\ LastDecision(nodes) > 0
    /\ \A k \in (LastDecision(nodes) + 1)..Len(nodes) :
           IsBranch(nodes[k]) \/ IsMergeNode(nodes[k])

\* the node the block hands on: its merge node when it had two or more
\* branches, the decision node otherwise
BlockExit(nodes) ==
    LET d  == LastDecision(nodes)
        br == {k \in (d + 1)..Len(nodes) : IsBranch(nodes[k])}
        mg == {k \in (d + 1)..Len(nodes) : IsMergeNode(nodes[k])}
    IN  IF Cardinality(br) >= 2 /\ mg # {}
        THEN nodes[CHOOSE k \in mg : TRUE].id
        ELSE nodes[d].id

\* C21: the first node created after a decision block is connected by its
\* sequential edge from the block's merge node when the block had two or more
\* branches, and from the decision node itself when it had one branch or
\* none; it is never connected from a branch node.
C21_AfterDecisionBlock ==
    [][(cls = "markdown" /\ pc = "scan" /\ AfterDecisionBlock(self.nodes)
          /\ Len(self'.nodes) > Len(self.nodes))
          => LET n   == self'.nodes[Len(self.nodes) + 1]
                 inc == SelectSeq(Added(self.edges, self'.edges),
                                  LAMBDA e : e.target = n.id)
             IN  /\ Len(inc) = 1
                 /\ inc[1].source = BlockExit(self.nodes)
                 /\ inc[1].label = None
                 /\ \A k \in 1..Len(self.nodes) :
                        IsBranch(self.nodes[k]) => inc[1].source # self.nodes[k].id]_vars

\* a numbered item after a decision with two branches hangs on the merge
\* node, and one after a decision with a single branch on the decision node
C21_Witness ==
    /\ cls = "markdown"
    /\ pc = "done"
    /\ \/ /\ lines = <<md_if, md_branch_2, md_branch_4, md_numbered>>
          /\ \E k \in 1..Len(result.edges) :
                 /\ result.edges[k].source = result.nodes[3].id
                 /\ IsMergeNode(result.nodes[3])
                 /\ result.edges[k].target = result.nodes[5].id
       \/ /\ lines = <<md_else, md_branch_2, md_text, md_numbered>>
          /\ \E k \in 1..Len(result.edges) :
                 /\ result.edges[k].source = result.nodes[1].id
                 /\ result.edges[k].target = result.nodes[3].id

\* the line has 2 or 4 leading spaces followed by `-` or `*`
IsIndentedBulletLine(line) ==
    \E n \in {2, 4} :
        /\ Len(line) > n
        /\ \A k \in 1..n : line[k] = " "
        /\ line[n + 1] \in {"-", "*"}

\* number of such lines in a row from the 0-based index idx on
RECURSIVE BranchRun(_, _)
BranchRun(ls, idx) ==
    IF idx < Len(ls) /\ IsIndentedBulletLine(ls[idx + 1])
    THEN 1 + BranchRun(ls, idx + 1)
    ELSE 0

\* the main loop stands on an indented bullet whose preceding line is a
\* bullet with a decision keyword
OnConsumedLine ==
    /\ cls = "markdown"
    /\ pc = "scan"
    /\ 1 <= i
    /\ i < Len(lines)
    /\ IsIndentedBulletLine(lines[i + 1])
    /\ Markdown_line_kind(strip(lines[i])) = "bullet"
    /\ is_decision(BulletText(lines, i - 1))

\* C22: each indented bullet line (2 or 4 leading spaces, then `-` or `*`)
\* that directly follows a decision line or another branch of it is consumed
\* by the decision's lookahead: it produces exactly one branch step node,
\* also when its text holds a decision keyword, and the main loop does not
\* scan it; the lookahead stops at the first line that is not such a bullet
\* (a blank line included) and the main loop goes on at exactly that line.
C22_Lookahead ==
    [][/\ AtDecision =>
            LET n  == BranchRun(lines, i + 1)
                ns == Added(self.nodes, self'.nodes)
                br == SelectSeq(ns, IsBranch)
            IN  /\ i' = i + 1 + n
                /\ i' < Len(lines) => ~IsIndentedBulletLine(lines[i' + 1])
                /\ Count(ns, IsDecisionNode) = 1
                /\ Len(br) = n
                /\ \A j \in 1..n : /\ br[j].type = s_step
                                   /\ br[j].label = BulletText(lines, i + j)
       /\ ~OnConsumedLine']_vars

\* a branch whose text holds a keyword became a step node, the lookahead
\* stopped at the blank line, and the bullet after it was scanned on its own
C22_Witness ==
    /\ cls = "markdown"
    /\ pc = "done"
    /\ lines = <<md_if, md_branch_4, md_blank, md_branch_2>>
    /\ Len(result.nodes) = 3
    /\ IsBranch(result.nodes[2])
    /\ result.nodes[2].label = <<"i", "f", " ", "y">>
    /\ ~IsBranch(result.nodes[3])

\* the main loop is at a decision bullet whose text holds else or otherwise
AtElseDecision ==
    /\ AtDecision
    /\ \/ contains(lower(BulletText(lines, i)), <<"e", "l", "s", "e">>)
       \/ contains(lower(BulletText(lines, i)), <<"o", "t", "h", "e", "r", "w", "i", "s", "e">>)

\* C23: when the text of the decision line holds `else` or `otherwise`, in
\* any letter case, every branch of the decision, the first included, has
\* its edge label and its metadata.branch equal to `no`; none is `yes`.
C23_ElseBranches ==
    [][AtElseDecision =>
          LET ns == Added(self.nodes, self'.nodes)
              es == Added(self.edges, self'.edges)
          IN  /\ \A k \in 1..Len(ns) :
                     IsBranch(ns[k]) =>
                         /\ ns[k].metadata.branch = <<"n", "o">>
                         /\ \E e \in 1..Len(es) :
                                /\ es[e].source = ns[1].id
                                /\ es[e].target = ns[k].id
                                /\ es[e].label = <<"n", "o">>
              /\ \A e \in 1..Len(es) : es[e].label # <<"y", "e", "s">>]_vars

\* an upper-case Otherwise bullet with two branches was converted
C23_Witness ==
    /\ cls = "markdown"
    /\ pc = "done"
    /\ lines = <<md_otherwise, md_branch_2, md_branch_4>>
    /\ Len(result.nodes) = 4
    /\ result.nodes[2].metadata.branch = s_no
    /\ result.nodes[4].metadata.branch = s_no

\* the trimmed line is `subgraph <label>`
IsGroupLine(l) ==
    /\ Len(l) >= 10
    /\ SubSeq(l, 1, 8) = <<"s", "u", "b", "g", "r", "a", "p", "h">>
    /\ IsSpace(l[9])

IsGroupNode(node) == "is_subgraph" \in DOMAIN node.metadata

\* the groups open after the lines from..to-1 (0-based), innermost last, each
\* named by its rank among the `subgraph <label>` lines met so far
RECURSIVE GroupStack(_, _, _, _, _)
GroupStack(ls, from, to, stack, opened) ==
    IF from >= to THEN stack
    ELSE LET l == strip(ls[from + 1])
         IN  IF IsGroupLine(l)
             THEN GroupStack(ls, from + 1, to, Append(stack, opened + 1), opened + 1)
             ELSE IF l = <<"e", "n", "d">> /\ stack # <<>>
             THEN GroupStack(ls, from + 1, to, SubSeq(stack, 1, Len(stack) - 1), opened)
             ELSE GroupStack(ls, from + 1, to, stack, opened)

\* C24: every node first created by a statement of a diagram gets
\* metadata.subgraph equal to the node id of the innermost group open at that
\* line (the most recent `subgraph <label>` not yet closed by an `end`), or
\* null when no group is open; after an `end` the enclosing group, if any,
\* is the context again, and an `end` with no open group changes nothing.
C24_GroupContext ==
    [][(cls = "mermaid" /\ pc = "scan" /\ i < Len(lines)) =>
          LET open   == GroupStack(lines, after_declaration(lines, 0), i, <<>>, 0)
              groups == SelectSeq(self.nodes, IsGroupNode)
              ctx    == IF open = <<>> THEN None ELSE groups[open[Len(open)]].id
              ns     == Added(self.nodes, self'.nodes)
              l      == strip(lines[i + 1])
          IN  /\ \A k \in 1..Len(ns) :
                     ~IsGroupNode(ns[k]) => ns[k].metadata.subgraph = ctx
              /\ (l = <<"e", "n", "d">> /\ open = <<>>) => self' = self]_vars

\* a node defined after the inner of two nested groups was closed belongs to
\* the outer group
C24_Witness ==
    /\ cls = "mermaid"
    /\ pc = "done"
    /\ lines = <<mm_flowchart, mm_subgraph, mm_subgraph, mm_end, mm_node>>
    /\ Len(result.nodes) = 3
    /\ result.nodes[3].metadata.subgraph = result.nodes[1].id

\* a non-blank line that is not a header, a numbered item, a bullet or a
\* code fence
IsOtherLine(line) ==
    LET l == strip(line)
    IN  /\ l # <<>>
        /\ l[1] \notin {"#", "-", "*"}
        /\ ~\E n \in 1..(Len(l) - 1) :
               /\ \A k \in 1..n : l[k] \in {"0", "1", "2", "3", "4", "5", "6", "7", "8", "9"}
               /\ l[n + 1] = "."
        /\ ~(Len(l) >= 3 /\ \A k \in 1..3 : l[k] = Backquote)

\* the lines of ls that are not such lines, in order
WithoutOtherLines(ls) == SelectSeq(ls, LAMBDA line : ~IsOtherLine(line))

\* no line of ls opens a code block or is an indented bullet: the main loop
\* scans every line
ScannedLineByLine(ls) ==
    \A k \in 1..Len(ls) :
        /\ ~IsIndentedBulletLine(ls[k])
        /\ ~startswith(strip(ls[k]), <<Backquote, Backquote, Backquote>>)

\* C25: in the outline converter a non-blank line that is not a header, a
\* numbered item, a bullet or a code fence creates no node and no edge and
\* leaves lastNodeId and both counters unchanged, so that the next node
\* created is chained from the same node as if that line were absent.
C25_OtherLineSkipped ==
    /\ [][(cls = "markdown" /\ pc = "scan" /\ i < Len(lines)
             /\ IsOtherLine(lines[i + 1]))
             => (self' = self /\ i' = i + 1 /\ pc' = "scan")]_vars
    /\ [](cls = "markdown" /\ pc = "done" /\ ScannedLineByLine(lines)
             => result = Markdown_fresh_parse(Text(WithoutOtherLines(lines))))

\* two numbered items with two skipped lines between them are chained
C25_Witness ==
    /\ cls = "markdown"
    /\ pc = "done"
    /\ lines = <<md_numbered, md_quote, md_plain, md_numbered>>
    /\ Len(result.nodes) = 2
    /\ Len(result.edges) = 1
    /\ result.edges[1].source = result.nodes[1].id
    /\ result.edges[1].target = result.nodes[2].id

\* C26: for every text for which detect_format returns `mermaid`, parse of
\* the diagram converter recognises the leading line of the text as the
\* declaration and parses the statements after it: a declaration in any
\* letter case followed by one arrow between two new identifiers gives two
\* nodes and one edge, not an empty graph.
C26_DetectedDiagramParsed ==
    (cls = "mermaid" /\ request # NoRequest /\ request.format = None
        /\ detect_format(request.content) = s_mermaid)
        => /\ ~(pc = "skip" /\ i >= 1)
           /\ (pc = "done" /\ Len(lines) = 2 /\ lines[2] = mm_edge)
                  => (Len(result.nodes) = 2 /\ Len(result.edges) = 1)

\* C27: in the diagram converter, once an identifier is mapped to a node, no
\* later statement changes that node's label, type or metadata: a later
\* reference with a shape, with another shape or inside another group leaves
\* the node as first created, and the identifier stays mapped to it.
C27_NodesNeverChange ==
    [][(cls = "mermaid" /\ pc = "scan") =>
          /\ Len(self'.nodes) >= Len(self.nodes)
          /\ \A k \in 1..Len(self.nodes) : self'.nodes[k] = self.nodes[k]
          /\ \A ident \in DOMAIN self.node_id_map :
                 /\ ident \in DOMAIN self'.node_id_map
                 /\ self'.node_id_map[ident] = self.node_id_map[ident]]_vars

\* B was defined as a decision outside any group and referred to again, with
\* another shape, inside a group: it is still the decision outside any group
C27_Witness ==
    /\ cls = "mermaid"
    /\ pc = "done"
    /\ lines = <<mm_flowchart, mm_node, mm_subgraph, mm_edge>>
    /\ Len(result.nodes) = 3
    /\ result.nodes[1].label = <<"D">>
    /\ result.nodes[1].type = s_decision
    /\ result.nodes[1].metadata.subgraph = None
    /\ result.nodes[3].metadata.subgraph = result.nodes[2].id

\* the ids reachable from the ids in `from` along the edges
RECURSIVE ReachableFrom(_, _)
ReachableFrom(from, edges) ==
    LET more == from \cup {edges[k].target :
                              k \in {j \in 1..Len(edges) : edges[j].source \in from}}
    IN  IF more = from THEN from ELSE ReachableFrom(more, edges)

HasIncoming(node_id, edges) == \E k \in 1..Len(edges) : edges[k].target = node_id

\* C28: in every graph the outline converter returns, every node except the
\* first one created has at least one incoming edge, and every node is
\* reachable from the first one along edges.
C28_Connected ==
    (cls = "markdown" /\ pc = "done" /\ result.nodes # <<>>) =>
        /\ \A k \in 2..Len(result.nodes) : HasIncoming(result.nodes[k].id, result.edges)
        /\ ReachableFrom({result.nodes[1].id}, result.edges)
               = {result.nodes[k].id : k \in 1..Len(result.nodes)}

\* a header, a decision with two branches and its merge point, then a step
C28_Witness ==
    /\ cls = "markdown"
    /\ pc = "done"
    /\ Len(result.nodes) >= 5
    /\ result.nodes[1].id = s_node_ \o str(0)
    /\ \E k \in 1..Len(result.nodes) : IsMergeNode(result.nodes[k])
    /\ ~IsMergeNode(result.nodes[Len(result.nodes)])
    /\ ~IsBranch(result.nodes[Len(result.nodes)])
    /\ ReachableFrom({result.nodes[1].id}, result.edges)
           = {result.nodes[k].id : k \in 1..Len(result.nodes)}

\* the position at which the node with this id was created
PosOf(nodes, node_id) == CHOOSE k \in 1..Len(nodes) : nodes[k].id = node_id

HasEdge(edges, source, target) ==
    \E k \in 1..Len(edges) : edges[k].source = source /\ edges[k].target = target

\* the edge runs from a second or later branch of a decision to the merge
\* point of that decision, which was created right after its first branch
IsLateBranchMergeEdge(nodes, edges, e) ==
    LET sp == PosOf(nodes, e.source)
        tp == PosOf(nodes, e.target)
    IN  /\ IsBranch(nodes[sp])
        /\ IsMergeNode(nodes[tp])
        /\ tp > 2
        /\ IsBranch(nodes[tp - 1])
        /\ \E d \in 1..Len(nodes) :
              /\ IsDecisionNode(nodes[d])
              /\ HasEdge(edges, nodes[d].id, e.source)
              /\ HasEdge(edges, nodes[d].id, nodes[tp - 1].id)

IsBackEdge(nodes, e) == PosOf(nodes, e.target) < PosOf(nodes, e.source)

\* C29: every graph the outline converter returns has no self-loop and no
\* directed cycle, and the only edges whose target was created before their
\* source run from the second and later branch nodes of a decision to that
\* decision's merge node.
C29_Acyclic ==
    (cls = "markdown" /\ pc = "done") =>
        /\ \A k \in 1..Len(result.edges) :
               result.edges[k].source # result.edges[k].target
        /\ \A k \in 1..Len(result.nodes) :
               result.nodes[k].id \notin
                   ReachableFrom({result.edges[j].target :
                                      j \in {x \in 1..Len(result.edges) :
                                                result.edges[x].source = result.nodes[k].id}},
                                 result.edges)
        /\ \A k \in 1..Len(result.edges) :
               IsBackEdge(result.nodes, result.edges[k])
                   => IsLateBranchMergeEdge(result.nodes, result.edges, result.edges[k])

\* a decision with two branches followed by a step: an edge runs back to the
\* merge point and the merge point has an edge onwards
C29_Witness ==
    /\ cls = "markdown"
    /\ pc = "done"
    /\ Cardinality({k \in 1..Len(result.edges) :
                       IsBackEdge(result.nodes, result.edges[k])}) = 1
    /\ \E k \in 1..Len(result.edges) :
           IsMergeNode(result.nodes[PosOf(result.nodes, result.edges[k].source)])

\* the identifier of the fragment left of the first match of the statement's
\* edge pattern
LineSource(line) ==
    Mermaid_extract_node_info(
        strip(re_split(line, EDGE_PATTERNS[first_edge_pattern(line, 1)], 0)[1])).node_id

\* the diagram identifier of the node with this id
MermaidIdOf(nodes, node_id) == nodes[PosOf(nodes, node_id)].metadata.mermaid_id

\* every edge the statement line created starts at the node of the fragment
\* left of the first matched arrow
FromLineSource(s, line, es) ==
    \A k \in 1..Len(es) :
        /\ LineSource(line) \in DOMAIN s.node_id_map
        /\ es[k].source = s.node_id_map[LineSource(line)]

====
